---- MODULE Spec2Model ----
(***************************************************************************)
(* Job orchestration layer of avatar-services: the Front Door              *)
(* (src/api/main.py, src/api/valkey.py), the shared store (Valkey lists    *)
(* and TTL keys) and the Worker loop (src/worker/worker.py).               *)
(*                                                                         *)
(* Every store call (GET, SETEX, LPUSH, BRPOP) is one atomic step; the     *)
(* code between two store calls of one handler belongs to the step of the  *)
(* call that precedes it (a coroutine of the Front Door runs without       *)
(* suspension between two awaits of store I/O; _request_lock is free       *)
(* whenever a coroutine reaches it, since no holder awaits inside it).     *)
(* Processes interleave between store calls.                               *)
(***************************************************************************)
EXTENDS Integers, Sequences, FiniteSets, TLC

\* ------------------------------------------------------------------------
\* Bounds of the model
\* ------------------------------------------------------------------------
\* number of HTTP submissions considered
MaxReq == 2
\* number of worker processes
NumWorkers == 2
\* number of TTL expiries considered
MaxExpired == 1
\* number of capture process requests considered
MaxCap == 2
\* number of capture uploads considered
MaxUp == 2
\* number of malformed entries put on the render queue
MaxBad == 1
\* number of jobs other clients of the store put on the two queues
MaxMis == 2
\* greatest frame width and height, greatest width and height of a box
MaxFrame == 2
MaxSide == 2
\* number of capture process requests taken together with render requests
MaxCapAll == 1

\* ------------------------------------------------------------------------
\* Program constants
\* ------------------------------------------------------------------------
\* admission ceiling (environment variable, set to 1 here)
MAX_CONCURRENT_REQUESTS == 1

Reqs == 1..MaxReq
Workers == 1..NumWorkers

\* capture process requests; the job_id (uuid4) of a request is its number
CapReqs == 1..MaxCap
JobIds == CapReqs
\* upload_capture: the least and the greatest size accepted, in bytes
min_size == 100 * 1024
max_size == 500 * 1024 * 1024
\* sizes an upload may have: empty, typical rejects and both boundaries
FileSizes ==
  {0, min_size - 1, min_size, 2 * min_size, max_size, max_size + 1}
NoUpload == [avatar_ok |-> FALSE, file_size |-> 0]
NoUploadResp == [code |-> "none", capture_id |-> "none", size_bytes |-> 0]
\* uploads; the capture_id (uuid4) generated for each of them
Uploads == 1..MaxUp
UploadIdNames == <<"up1", "up2", "up3", "up4">>
UploadId(u) == UploadIdNames[u]
\* capture_ids a request may name; the upload of the first is on disk
CaptureIds == {"cap1", "cap2"} \cup {UploadId(u) : u \in Uploads}

\* Render inputs (voice_id, speed in thousandths, text).  The first two
\* differ only in the third decimal of the speed; the voice of the third
\* has no model file.
Inputs ==
  { [voice_id |-> "amy", speed |-> 1000, text |-> "a"],
    [voice_id |-> "amy", speed |-> 1004, text |-> "a"],
    [voice_id |-> "zed", speed |-> 1000, text |-> "a"] }

\* f"{speed:.2f}": the speed rounded to two decimals (hundredths)
Round2(speed) == (speed + 5) \div 10

\* variant: the speed enters the digest as given
generate_cache_key_raw(voice_id, speed, text) == <<voice_id, speed, text>>

\* ValkeyClient.generate_cache_key: digest of "voice:speed.2f:text"
\* (the digest is taken as injective on the formatted string)
generate_cache_key(voice_id, speed, text) == <<voice_id, Round2(speed), text>>

\* variant: the time is left out of the digest
generate_render_id_no_time(voice_id, speed, text, time_ns) ==
  <<voice_id, Round2(speed), text, 1>>

\* ValkeyClient.generate_render_id: digest of "voice:speed.2f:text:time_ns"
generate_render_id(voice_id, speed, text, time_ns) ==
  <<voice_id, Round2(speed), text, time_ns>>

CacheKeys == { generate_cache_key(i.voice_id, i.speed, i.text) : i \in Inputs }
Times == 1..(MaxReq + 1)
RenderIds ==
  { generate_render_id(i.voice_id, i.speed, i.text, t) : i \in Inputs, t \in Times }

NoId == <<>>
None ==
  [render_id |-> NoId, status |-> "none", audio_url |-> NoId, cached |-> FALSE,
   error |-> "none"]
NoInput == [voice_id |-> "none", speed |-> 0, text |-> "none"]
NoJob ==
  [render_id |-> NoId, cache_key |-> NoId, input |-> NoInput,
   type |-> "none", job_id |-> 0]
NoResp == [kind |-> "none", body |-> None]

\* anchor boxes {x, y, w, h, cx, cy} in pixels, and frame sizes
NoBox == [x |-> 0, y |-> 0, w |-> 0, h |-> 0, cx |-> 0, cy |-> 0]
NoFrame == [max_width |-> 0, max_height |-> 0]

Terminal == {"completed", "failed"}

\* RenderResult dictionaries (the fields the orchestration reads or writes)
PendingRecord(render_id) ==
  [render_id |-> render_id, status |-> "pending", audio_url |-> NoId,
   cached |-> FALSE, error |-> "none"]

CompletedResult(render_id) ==
  [render_id |-> render_id, status |-> "completed", audio_url |-> render_id,
   cached |-> FALSE, error |-> "none"]

FailedResult(render_id) ==
  [render_id |-> render_id, status |-> "failed", audio_url |-> NoId,
   cached |-> FALSE, error |-> "pipeline error"]

\* CaptureStatus dictionaries: job_id (0 when the key is missing), status,
\* progress, logs, error ("none" when the key is missing), outputs (TRUE
\* when manifest_url and zip_url are present)
NoStatus ==
  [job_id |-> 0, status |-> "none", progress |-> 0, logs |-> <<>>,
   error |-> "none", outputs |-> FALSE]

\* process_capture_job has not returned
NoCaptureResult == [status |-> "none", error |-> "none"]

VARIABLES
  pc,         \* position of each submission in its handler
  mode,       \* "sync" | "async" | "none"
  input,      \* the RenderRequest of each submission
  rid,        \* render_id local of each handler
  cached_result, \* cached_result local of each handler
  resp,       \* HTTP response of each submission
  active,     \* _active_requests
  clk,        \* time.time_ns()
  coarse,     \* TRUE when two reads of the clock may return the same value
  queue,      \* avatar:jobs (head = left end)
  record,     \* avatar:result:<render_id>
  cache,      \* avatar:cache:<digest>
  notify,     \* length of avatar:notify:<render_id>
  wpc,        \* position of each worker in run_worker
  wjob,       \* job_data of each worker
  wdata,      \* update_result_status: the dictionary read
  expired,    \* number of TTL expiries so far
  lastWrite,  \* history: writer and status of the last write to each record
  termWrites, \* history: writes of a terminal status per render_id and writer
  cacheLog,   \* history: render_ids whose result was written to the cache
  pushCount,  \* history: notify tokens pushed per render_id
  skipped,    \* history: jobs dropped by the idempotency guard
  recExpired, \* history: render_ids whose record ran out of its TTL
  pushLog,    \* history: render_ids in the order of their LPUSH
  cpc,        \* position of each capture process request in its handler
  cinput,     \* capture_id named by each capture process request
  cresp,      \* HTTP response of each capture process request
  files,      \* capture_ids whose upload is on disk (CAPTURES_DIR)
  cqueue,     \* avatar:capture:jobs (head = left end)
  cstatus,    \* avatar:capture:status:<job_id>
  cjob,       \* job_id of the capture job each worker holds
  wstage,     \* process_capture_job: the stage each worker comes to next
  cresult,    \* process_capture_job: the value it returns
  progLog,    \* history: progress values written per job_id, in order
  lastLogs,   \* history: the logs list last written per job_id
  cpushLog,   \* history: job_ids in the order of their RPUSH
  ranStage,   \* history: last pipeline stage started per job_id
  failedStage, \* history: the stage that failed per job_id (0: none)
  upc,        \* position of each upload in upload_capture
  uinput,     \* avatar_id validity and size in bytes of each upload
  uresp,      \* HTTP response of each upload
  running,    \* the flag "running" of each worker process
  injected,   \* number of entries put on the queues by other clients
  misplaced,  \* history: jobs put on the queue of the other job kind
  bbox,       \* clamp_bbox: the box passed in
  frame,      \* clamp_bbox: max_width and max_height passed in
  clamped     \* clamp_bbox: the box returned

fdVars == <<pc, mode, input, rid, cached_result, resp>>
storeVars == <<queue, record, cache, notify>>
workerVars == <<wpc, wjob, wdata>>
histVars ==
  <<lastWrite, termWrites, cacheLog, pushCount, skipped, recExpired, pushLog>>
upVars == <<upc, uinput, uresp>>
anchorVars == <<bbox, frame, clamped>>
faultVars == <<running, injected, misplaced, anchorVars>>
capVars ==
  <<cpc, cinput, cresp, files, cqueue, cstatus, cjob, wstage, cresult,
    progLog, lastLogs, cpushLog, ranStage, failedStage, upVars>>
vars == <<pc, mode, input, rid, cached_result, resp, active, clk, coarse,
          queue, record, cache, notify, expired, wpc, wjob, wdata, lastWrite,
          termWrites, cacheLog, pushCount, skipped, recExpired, pushLog,
          cpc, cinput, cresp, files, cqueue, cstatus, cjob, wstage, cresult,
          progLog, lastLogs, cpushLog, ranStage, failedStage, upc, uinput,
          uresp, running, injected, misplaced, bbox, frame, clamped>>

InitCommon ==
  /\ pc = [r \in Reqs |-> "idle"]
  /\ mode = [r \in Reqs |-> "none"]
  /\ input = [r \in Reqs |-> NoInput]
  /\ rid = [r \in Reqs |-> NoId]
  /\ cached_result = [r \in Reqs |-> None]
  /\ resp = [r \in Reqs |-> NoResp]
  /\ active = 0
  /\ clk = 1
  /\ queue = <<>>
  /\ record = [i \in RenderIds |-> None]
  /\ cache = [k \in CacheKeys |-> None]
  /\ notify = [i \in RenderIds |-> 0]
  /\ wpc = [w \in Workers |-> "pop"]
  /\ wjob = [w \in Workers |-> NoJob]
  /\ wdata = [w \in Workers |-> None]
  /\ expired = 0
  /\ lastWrite = [i \in RenderIds |-> <<"none", "none">>]
  /\ termWrites = [i \in RenderIds |-> [worker |-> 0, front_door |-> 0]]
  /\ cacheLog = {}
  /\ pushCount = [i \in RenderIds |-> 0]
  /\ skipped = {}
  /\ recExpired = {}
  /\ pushLog = <<>>
  /\ cpc = [c \in CapReqs |-> "idle"]
  /\ cinput = [c \in CapReqs |-> "none"]
  /\ cresp = [c \in CapReqs |-> "none"]
  /\ files = {"cap1"}
  /\ cqueue = <<>>
  /\ cstatus = [j \in JobIds |-> NoStatus]
  /\ cjob = [w \in Workers |-> 0]
  /\ wstage = [w \in Workers |-> 0]
  /\ cresult = [w \in Workers |-> NoCaptureResult]
  /\ progLog = [j \in JobIds |-> <<>>]
  /\ lastLogs = [j \in JobIds |-> <<>>]
  /\ cpushLog = <<>>
  /\ ranStage = [j \in JobIds |-> 0]
  /\ failedStage = [j \in JobIds |-> 0]
  /\ upc = [u \in Uploads |-> "idle"]
  /\ uinput = [u \in Uploads |-> NoUpload]
  /\ uresp = [u \in Uploads |-> NoUploadResp]
  /\ running = [w \in Workers |-> TRUE]
  /\ injected = 0
  /\ misplaced = {}

\* no anchor box is being clamped
InitAnchors == bbox = NoBox /\ frame = NoFrame /\ clamped = NoBox

Init == InitCommon /\ coarse = FALSE /\ InitAnchors

\* ------------------------------------------------------------------------
\* Store operations
\* ------------------------------------------------------------------------
\* SETEX avatar:result:<render_id> (ValkeyClient.set_result, and the
\* worker's setex calls); the writer is recorded in the history only
SetResult(render_id, result, writer) ==
  /\ record' = [record EXCEPT ![render_id] = result]
  /\ lastWrite' = [lastWrite EXCEPT ![render_id] = <<writer, result.status>>]
  /\ termWrites' = [termWrites EXCEPT ![render_id][writer] =
                      IF result.status \in Terminal THEN @ + 1 ELSE @]

\* variant: the job is pushed twice
enqueue_job_twice(q, job_data) == <<job_data, job_data>> \o q

\* LPUSH avatar:jobs (ValkeyClient.enqueue_job): new jobs enter at the head
enqueue_job(q, job_data) == <<job_data>> \o q

\* job_data of a render job; it has no key "type" and no job_id
JobData(r) ==
  [render_id |-> rid[r],
   cache_key |-> generate_cache_key(input[r].voice_id, input[r].speed,
                                    input[r].text),
   input |-> input[r],
   type |-> "none",
   job_id |-> 0]

\* job_data.get('type', 'render')
job_type(job_data) ==
  IF job_data.type = "none" THEN "render" ELSE job_data.type

\* run_worker: the branch taken for a dequeued job
IsCapture(job_data) == job_type(job_data) = "capture_processing"

\* variant: the clock does not advance between two reads
ReadClockStuck == clk' = clk

\* time.time_ns(): the clock after a read
ReadClock ==
  IF coarse THEN clk' \in {clk, clk + 1} ELSE clk' = clk + 1

\* ------------------------------------------------------------------------
\* Admission counter
\* ------------------------------------------------------------------------
\* variant: test with > instead of >=
check_concurrency_limit_gt(n) ==
  IF n > MAX_CONCURRENT_REQUESTS
    THEN [ok |-> FALSE, active |-> n]
    ELSE [ok |-> TRUE, active |-> n + 1]

\* variant: the increment is done before the test
check_concurrency_limit_inc_first(n) ==
  IF n >= MAX_CONCURRENT_REQUESTS
    THEN [ok |-> FALSE, active |-> n + 1]
    ELSE [ok |-> TRUE, active |-> n + 1]

\* variant: the refusal is raised inside the try block and runs the finally
\* clause
check_concurrency_limit_refusal_releases(n) ==
  IF n >= MAX_CONCURRENT_REQUESTS
    THEN [ok |-> FALSE, active |-> IF n - 1 > 0 THEN n - 1 ELSE 0]
    ELSE [ok |-> TRUE, active |-> n + 1]

\* check_concurrency_limit: the returned flag and the counter afterwards
check_concurrency_limit(n) ==
  IF n >= MAX_CONCURRENT_REQUESTS
    THEN [ok |-> FALSE, active |-> n]
    ELSE [ok |-> TRUE, active |-> n + 1]

\* release_concurrency_slot: max(0, _active_requests - 1)
release_concurrency_slot(n) == IF n - 1 > 0 THEN n - 1 ELSE 0

\* variant: the slot is not released
FinallyNoRelease(n) == n

\* render_sync: the finally clause, run on the exit paths of the try block
Finally(n) == release_concurrency_slot(n)

\* ------------------------------------------------------------------------
\* Front Door: render_sync
\* ------------------------------------------------------------------------
\* a sync submission arrives: check_concurrency_limit; 429 when refused
SubmitSync(r) ==
  /\ pc[r] = "idle"
  /\ r > 1 => pc[r - 1] # "idle"
  /\ \E i \in Inputs : input' = [input EXCEPT ![r] = i]
  /\ mode' = [mode EXCEPT ![r] = "sync"]
  /\ LET c == check_concurrency_limit(active) IN
       /\ active' = c.active
       /\ IF c.ok
            THEN /\ pc' = [pc EXCEPT ![r] = "s_cache"]
                 /\ resp' = resp
            ELSE /\ pc' = [pc EXCEPT ![r] = "done"]
                 /\ resp' = [resp EXCEPT ![r] = [kind |-> "429", body |-> None]]
  /\ UNCHANGED <<rid, cached_result, clk, coarse, storeVars, expired,
                 workerVars, histVars>>
  /\ UNCHANGED capVars
  /\ UNCHANGED faultVars

\* variant: the cached flag is not set
CachedResponseNoFlag(result) == [kind |-> "render", body |-> result]

\* render_sync on a cache hit: cached_result["cached"] = True
CachedResponse(result) ==
  [kind |-> "render", body |-> [result EXCEPT !.cached = TRUE]]

\* generate_cache_key, get_cached_result; on a hit return cached=True,
\* on a miss generate_render_id
SyncCacheLookup(r) ==
  /\ pc[r] = "s_cache"
  /\ LET cache_key == generate_cache_key(input[r].voice_id, input[r].speed,
                                         input[r].text) IN
       IF cache[cache_key] # None
         THEN /\ resp' = [resp EXCEPT ![r] = CachedResponse(cache[cache_key])]
              /\ pc' = [pc EXCEPT ![r] = "done"]
              /\ active' = Finally(active)
              /\ UNCHANGED <<rid, clk>>
         ELSE /\ rid' = [rid EXCEPT ![r] =
                           generate_render_id(input[r].voice_id, input[r].speed,
                                              input[r].text, clk)]
              /\ ReadClock
              /\ pc' = [pc EXCEPT ![r] = "s_enqueue"]
              /\ UNCHANGED <<resp, active>>
  /\ UNCHANGED <<mode, input, cached_result, coarse, storeVars, expired,
                 workerVars, histVars>>
  /\ UNCHANGED capVars
  /\ UNCHANGED faultVars

\* valkey.enqueue_job(job_data)
SyncEnqueue(r) ==
  /\ pc[r] = "s_enqueue"
  /\ queue' = enqueue_job(queue, JobData(r))
  /\ pushLog' = Append(pushLog, rid[r])
  /\ pc' = [pc EXCEPT ![r] = "s_get"]
  /\ UNCHANGED <<mode, input, rid, cached_result, resp, active, clk, coarse,
                 record, cache, notify, expired, workerVars, lastWrite,
                 termWrites, cacheLog, pushCount, skipped, recExpired>>
  /\ UNCHANGED capVars
  /\ UNCHANGED faultVars

\* a store call of render_sync raises (get_cached_result, enqueue_job):
\* the exception leaves through finally and is answered 500
SyncException(r) ==
  /\ pc[r] \in {"s_cache", "s_enqueue"}
  /\ resp' = [resp EXCEPT ![r] = [kind |-> "500", body |-> None]]
  /\ pc' = [pc EXCEPT ![r] = "done"]
  /\ active' = Finally(active)
  /\ UNCHANGED <<mode, input, rid, cached_result, clk, coarse, storeVars,
                 expired, workerVars, histVars>>
  /\ UNCHANGED capVars
  /\ UNCHANGED faultVars

\* what render_sync returns for the value of wait_for_result
SyncResponse(result) ==
  IF result = None
    THEN [kind |-> "504", body |-> None]
    ELSE [kind |-> "render", body |-> [result EXCEPT !.cached = FALSE]]

\* wait_for_result: first check if the result already exists
WaitGet(r) ==
  /\ pc[r] = "s_get"
  /\ IF record[rid[r]] # None
       THEN /\ resp' = [resp EXCEPT ![r] = SyncResponse(record[rid[r]])]
            /\ pc' = [pc EXCEPT ![r] = "done"]
            /\ active' = Finally(active)
       ELSE /\ pc' = [pc EXCEPT ![r] = "s_brpop"]
            /\ UNCHANGED <<resp, active>>
  /\ UNCHANGED <<mode, input, rid, cached_result, clk, coarse, storeVars,
                 expired, workerVars, histVars>>
  /\ UNCHANGED capVars
  /\ UNCHANGED faultVars

\* wait_for_result: brpop(notify_key) returns a token
WaitBrpop(r) ==
  /\ pc[r] = "s_brpop"
  /\ notify[rid[r]] > 0
  /\ notify' = [notify EXCEPT ![rid[r]] = @ - 1]
  /\ pc' = [pc EXCEPT ![r] = "s_get2"]
  /\ UNCHANGED <<mode, input, rid, cached_result, resp, active, clk, coarse,
                 queue, record, cache, expired, workerVars, histVars>>
  /\ UNCHANGED capVars
  /\ UNCHANGED faultVars

\* variant: the timeout also removes the job from the queue
WaitTimeoutCancel(r) ==
  /\ pc[r] = "s_brpop"
  /\ notify[rid[r]] = 0
  /\ resp' = [resp EXCEPT ![r] = SyncResponse(None)]
  /\ pc' = [pc EXCEPT ![r] = "done"]
  /\ active' = Finally(active)
  /\ queue' = SelectSeq(queue, LAMBDA j : j.render_id # rid[r])
  /\ UNCHANGED <<mode, input, rid, cached_result, clk, coarse, record, cache,
                 notify, expired, workerVars, histVars>>
  /\ UNCHANGED capVars
  /\ UNCHANGED faultVars

\* wait_for_result: brpop returns nothing after timeout_seconds (or raises,
\* which is caught): wait_for_result returns None and render_sync raises 504
WaitTimeout(r) ==
  /\ pc[r] = "s_brpop"
  /\ notify[rid[r]] = 0
  /\ resp' = [resp EXCEPT ![r] = SyncResponse(None)]
  /\ pc' = [pc EXCEPT ![r] = "done"]
  /\ active' = Finally(active)
  /\ UNCHANGED <<mode, input, rid, cached_result, clk, coarse, storeVars,
                 expired, workerVars, histVars>>
  /\ UNCHANGED capVars
  /\ UNCHANGED faultVars

\* variant: the value of the first get_result is returned after the wake-up
WaitGet2Stale(r) ==
  /\ pc[r] = "s_get2"
  /\ resp' = [resp EXCEPT ![r] = SyncResponse(None)]
  /\ pc' = [pc EXCEPT ![r] = "done"]
  /\ active' = Finally(active)
  /\ UNCHANGED <<mode, input, rid, cached_result, clk, coarse, storeVars,
                 expired, workerVars, histVars>>
  /\ UNCHANGED capVars
  /\ UNCHANGED faultVars

\* wait_for_result: get_result after the notification
WaitGet2(r) ==
  /\ pc[r] = "s_get2"
  /\ resp' = [resp EXCEPT ![r] = SyncResponse(record[rid[r]])]
  /\ pc' = [pc EXCEPT ![r] = "done"]
  /\ active' = Finally(active)
  /\ UNCHANGED <<mode, input, rid, cached_result, clk, coarse, storeVars,
                 expired, workerVars, histVars>>
  /\ UNCHANGED capVars
  /\ UNCHANGED faultVars

\* ------------------------------------------------------------------------
\* Front Door: render_async
\* ------------------------------------------------------------------------
\* variant: the async handler takes an admission slot like the sync one
SubmitAsyncAdmission(r) ==
  /\ pc[r] = "idle"
  /\ r > 1 => pc[r - 1] # "idle"
  /\ \E i \in Inputs : input' = [input EXCEPT ![r] = i]
  /\ mode' = [mode EXCEPT ![r] = "async"]
  /\ LET c == check_concurrency_limit(active) IN
       /\ active' = active
       /\ IF c.ok
            THEN /\ pc' = [pc EXCEPT ![r] = "a_cache"]
                 /\ resp' = resp
            ELSE /\ pc' = [pc EXCEPT ![r] = "done"]
                 /\ resp' = [resp EXCEPT ![r] = [kind |-> "429", body |-> None]]
  /\ UNCHANGED <<rid, cached_result, clk, coarse, storeVars, expired,
                 workerVars, histVars>>
  /\ UNCHANGED capVars
  /\ UNCHANGED faultVars

\* an async submission arrives
SubmitAsync(r) ==
  /\ pc[r] = "idle"
  /\ r > 1 => pc[r - 1] # "idle"
  /\ \E i \in Inputs : input' = [input EXCEPT ![r] = i]
  /\ mode' = [mode EXCEPT ![r] = "async"]
  /\ pc' = [pc EXCEPT ![r] = "a_cache"]
  /\ UNCHANGED <<rid, cached_result, resp, active, clk, coarse, storeVars,
                 expired, workerVars, histVars>>
  /\ UNCHANGED capVars
  /\ UNCHANGED faultVars

\* generate_cache_key, get_cached_result; on a hit the render_id is the one
\* stored in the cached result, on a miss generate_render_id
AsyncCacheLookup(r) ==
  /\ pc[r] = "a_cache"
  /\ LET cache_key == generate_cache_key(input[r].voice_id, input[r].speed,
                                         input[r].text) IN
       IF cache[cache_key] # None
         THEN /\ cached_result' = [cached_result EXCEPT ![r] = cache[cache_key]]
              /\ rid' = [rid EXCEPT ![r] = cache[cache_key].render_id]
              /\ pc' = [pc EXCEPT ![r] = "a_sethit"]
              /\ clk' = clk
         ELSE /\ rid' = [rid EXCEPT ![r] =
                           generate_render_id(input[r].voice_id, input[r].speed,
                                              input[r].text, clk)]
              /\ ReadClock
              /\ pc' = [pc EXCEPT ![r] = "a_setpending"]
              /\ UNCHANGED cached_result
  /\ UNCHANGED <<mode, input, resp, active, coarse, storeVars, expired,
                 workerVars, histVars>>
  /\ UNCHANGED capVars
  /\ UNCHANGED faultVars

\* variant: the hit branch stores the pending status
AsyncSetHitPending(r) ==
  /\ pc[r] = "a_sethit"
  /\ SetResult(rid[r], PendingRecord(rid[r]), "front_door")
  /\ resp' = [resp EXCEPT ![r] =
                [kind |-> "async",
                 body |-> [PendingRecord(rid[r]) EXCEPT !.status = "completed"]]]
  /\ pc' = [pc EXCEPT ![r] = "done"]
  /\ UNCHANGED <<mode, input, rid, cached_result, active, clk, coarse, queue,
                 cache, notify, expired, workerVars, cacheLog, pushCount,
                 skipped, recExpired, pushLog>>
  /\ UNCHANGED capVars
  /\ UNCHANGED faultVars

\* variant: the hit branch answers without storing the result for polling
AsyncSetHitNoWrite(r) ==
  /\ pc[r] = "a_sethit"
  /\ resp' = [resp EXCEPT ![r] =
                [kind |-> "async",
                 body |-> [PendingRecord(rid[r]) EXCEPT !.status = "completed"]]]
  /\ pc' = [pc EXCEPT ![r] = "done"]
  /\ UNCHANGED <<mode, input, rid, cached_result, active, clk, coarse,
                 storeVars, expired, workerVars, histVars>>
  /\ UNCHANGED capVars
  /\ UNCHANGED faultVars

\* variant: the cache hit stores the payload without its audio_url
AsyncSetHitStripped(r) ==
  /\ pc[r] = "a_sethit"
  /\ SetResult(rid[r], [cached_result[r] EXCEPT !.audio_url = NoId],
               "front_door")
  /\ resp' = [resp EXCEPT ![r] =
                [kind |-> "async",
                 body |-> [PendingRecord(rid[r]) EXCEPT !.status = "completed"]]]
  /\ pc' = [pc EXCEPT ![r] = "done"]
  /\ UNCHANGED <<mode, input, rid, cached_result, active, clk, coarse, queue,
                 cache, notify, expired, workerVars, cacheLog, pushCount,
                 skipped, recExpired, pushLog>>
  /\ UNCHANGED capVars
  /\ UNCHANGED faultVars

\* cache hit: set_result(render_id, cached_result), return status completed
AsyncSetHit(r) ==
  /\ pc[r] = "a_sethit"
  /\ SetResult(rid[r], cached_result[r], "front_door")
  /\ resp' = [resp EXCEPT ![r] =
                [kind |-> "async",
                 body |-> [PendingRecord(rid[r]) EXCEPT !.status = "completed"]]]
  /\ pc' = [pc EXCEPT ![r] = "done"]
  /\ UNCHANGED <<mode, input, rid, cached_result, active, clk, coarse, queue,
                 cache, notify, expired, workerVars, cacheLog, pushCount,
                 skipped, recExpired, pushLog>>
  /\ UNCHANGED capVars
  /\ UNCHANGED faultVars

\* variant: the miss branch enqueues without storing the pending status
AsyncSetPendingSkip(r) ==
  /\ pc[r] = "a_setpending"
  /\ pc' = [pc EXCEPT ![r] = "a_enqueue"]
  /\ UNCHANGED <<mode, input, rid, cached_result, resp, active, clk, coarse,
                 storeVars, expired, workerVars, histVars>>
  /\ UNCHANGED capVars
  /\ UNCHANGED faultVars

\* variant: the miss branch makes the job visible in the queue first; the
\* pending status is not stored by then
AsyncSetPendingAfterPush(r) ==
  /\ pc[r] = "a_setpending"
  /\ queue' = enqueue_job(queue, JobData(r))
  /\ pc' = [pc EXCEPT ![r] = "a_enqueue"]
  /\ UNCHANGED <<mode, input, rid, cached_result, resp, active, clk, coarse,
                 record, cache, notify, expired, workerVars, histVars>>
  /\ UNCHANGED capVars
  /\ UNCHANGED faultVars

\* cache miss: store the initial pending status
AsyncSetPending(r) ==
  /\ pc[r] = "a_setpending"
  /\ SetResult(rid[r], PendingRecord(rid[r]), "front_door")
  /\ pc' = [pc EXCEPT ![r] = "a_enqueue"]
  /\ UNCHANGED <<mode, input, rid, cached_result, resp, active, clk, coarse,
                 queue, cache, notify, expired, workerVars, cacheLog,
                 pushCount, skipped, recExpired, pushLog>>
  /\ UNCHANGED capVars
  /\ UNCHANGED faultVars

\* cache miss: enqueue_job, return status pending
AsyncEnqueue(r) ==
  /\ pc[r] = "a_enqueue"
  /\ queue' = enqueue_job(queue, JobData(r))
  /\ pushLog' = Append(pushLog, rid[r])
  /\ resp' = [resp EXCEPT ![r] =
                [kind |-> "async", body |-> PendingRecord(rid[r])]]
  /\ pc' = [pc EXCEPT ![r] = "done"]
  /\ UNCHANGED <<mode, input, rid, cached_result, active, clk, coarse, record,
                 cache, notify, expired, workerVars, lastWrite, termWrites,
                 cacheLog, pushCount, skipped, recExpired>>
  /\ UNCHANGED capVars
  /\ UNCHANGED faultVars

\* ------------------------------------------------------------------------
\* Front Door: get_render_status
\* ------------------------------------------------------------------------
\* the answer to a poll of render_id in the current state
get_render_status(render_id) ==
  IF record[render_id] = None
    THEN [kind |-> "404", body |-> None]
    ELSE [kind |-> "render", body |-> record[render_id]]

\* ------------------------------------------------------------------------
\* Worker: run_worker, process_job, update_result_status, store_result
\* ------------------------------------------------------------------------
\* an entry of the render queue that is not a JSON document
Malformed == [NoJob EXCEPT !.input.voice_id = "malformed"]

\* variant: the loop test does not read the flag (while True)
LoopTestAlways(w) == "pop"

\* "while running": where a worker is after the loop test that follows the
\* end of an iteration (blocked in brpop again, or out of the loop)
LoopTest(w) == IF running[w] THEN "pop" ELSE "stopped"

\* variant: the job is read and stays in the queue
WorkerPopKeeps(w) ==
  /\ wpc[w] = "pop"
  /\ queue # <<>>
  /\ queue[Len(queue)] # Malformed
  /\ wjob' = [wjob EXCEPT ![w] = queue[Len(queue)]]
  /\ wpc' = [wpc EXCEPT ![w] = "guard"]
  /\ UNCHANGED <<fdVars, active, clk, coarse, storeVars, expired, wdata,
                 histVars>>
  /\ UNCHANGED capVars
  /\ UNCHANGED faultVars

\* brpop on avatar:jobs takes the job at the tail
WorkerPop(w) ==
  /\ wpc[w] = "pop"
  /\ queue # <<>>
  /\ queue[Len(queue)] # Malformed
  /\ ~IsCapture(queue[Len(queue)])
  /\ wjob' = [wjob EXCEPT ![w] = queue[Len(queue)]]
  /\ queue' = SubSeq(queue, 1, Len(queue) - 1)
  /\ wpc' = [wpc EXCEPT ![w] = "guard"]
  /\ UNCHANGED <<fdVars, active, clk, coarse, record, cache, notify, expired,
                 wdata, histVars>>
  /\ UNCHANGED capVars
  /\ UNCHANGED faultVars

\* variant: any existing record counts as processed
AlreadyProcessedAny(existing) == existing # None

\* variant: only a completed record counts as processed
AlreadyProcessedCompletedOnly(existing) ==
  existing # None /\ existing.status = "completed"

\* run_worker: the test "result already exists" on the record read
AlreadyProcessed(existing) ==
  existing # None /\ existing.status \in Terminal

\* run_worker: read the existing record; skip the job when it is terminal
WorkerGuard(w) ==
  /\ wpc[w] = "guard"
  /\ IF AlreadyProcessed(record[wjob[w].render_id])
       THEN /\ wpc' = [wpc EXCEPT ![w] = LoopTest(w)]
            /\ wjob' = [wjob EXCEPT ![w] = NoJob]
            /\ skipped' = skipped \cup {wjob[w].render_id}
       ELSE /\ wpc' = [wpc EXCEPT ![w] = "upd_get"]
            /\ UNCHANGED <<wjob, skipped>>
  /\ UNCHANGED <<fdVars, active, clk, coarse, storeVars, expired, wdata,
                 lastWrite, termWrites, cacheLog, pushCount, recExpired, pushLog>>
  /\ UNCHANGED capVars
  /\ UNCHANGED faultVars

\* update_result_status: current = redis_client.get(key)
WorkerUpdGet(w) ==
  /\ wpc[w] = "upd_get"
  /\ IF record[wjob[w].render_id] # None
       THEN /\ wdata' = [wdata EXCEPT ![w] = record[wjob[w].render_id]]
            /\ wpc' = [wpc EXCEPT ![w] = "upd_set"]
       ELSE /\ wdata' = wdata
            /\ wpc' = [wpc EXCEPT ![w] = "pipeline"]
  /\ UNCHANGED <<fdVars, active, clk, coarse, storeVars, expired, wjob,
                 histVars>>
  /\ UNCHANGED capVars
  /\ UNCHANGED faultVars

\* update_result_status: data["status"] = status; setex
update_result_status(data, status) == [data EXCEPT !.status = status]

\* variant: the status is read and left as it is
WorkerUpdSetSkip(w) ==
  /\ wpc[w] = "upd_set"
  /\ wdata' = [wdata EXCEPT ![w] = None]
  /\ wpc' = [wpc EXCEPT ![w] = "pipeline"]
  /\ UNCHANGED <<fdVars, active, clk, coarse, storeVars, expired, wjob,
                 histVars>>
  /\ UNCHANGED capVars
  /\ UNCHANGED faultVars

WorkerUpdSet(w) ==
  /\ wpc[w] = "upd_set"
  /\ SetResult(wjob[w].render_id, update_result_status(wdata[w], "processing"),
               "worker")
  /\ wdata' = [wdata EXCEPT ![w] = None]
  /\ wpc' = [wpc EXCEPT ![w] = "pipeline"]
  /\ UNCHANGED <<fdVars, active, clk, coarse, queue, cache, notify, expired,
                 wjob, cacheLog, pushCount, skipped, recExpired, pushLog>>
  /\ UNCHANGED capVars
  /\ UNCHANGED faultVars

\* the default voice model (environment variable PIPER_MODEL) and the
\* voice_ids that have a model file <voice_id>.onnx beside it
PIPER_MODEL == "en_US-lessac-medium"
InstalledVoices == {"amy", PIPER_MODEL}

\* get_voice_model_path: the model of the voice when its file exists,
\* otherwise the default model
get_voice_model_path(voice_id) ==
  IF voice_id \in InstalledVoices THEN voice_id ELSE PIPER_MODEL

\* process_job: the pipeline (synthesize_speech, extract_mouth_cues,
\* generate_eye_events) returns a completed result, or the exception of a
\* stage is caught and a failed result returned; synthesize_speech raises
\* when the model it is given has no file
process_job(job_data) ==
  IF get_voice_model_path(job_data.input.voice_id) \in InstalledVoices
    THEN {CompletedResult(job_data.render_id),
          FailedResult(job_data.render_id)}
    ELSE {FailedResult(job_data.render_id)}

\* variant: the cache entry is written whatever the status of the result
AfterStoreAlwaysCache(result) == "cache"

\* variant: a failed result is stored without a notify token
AfterStoreFailedNoNotify(result) ==
  IF result.status = "completed" THEN "cache" ELSE "pop"

\* variant: store_result goes from the record to the notify token
AfterStoreNoCache(result) == "notify"

\* store_result: where the worker goes after the record is written
AfterStore(result) == IF result.status = "completed" THEN "cache" ELSE "notify"

\* process_job returns; store_result: setex(result_key, RESULT_TTL_SECONDS)
WorkerStoreResult(w) ==
  /\ wpc[w] = "pipeline"
  /\ \E result \in process_job(wjob[w]) :
       /\ SetResult(result.render_id, result, "worker")
       /\ wdata' = [wdata EXCEPT ![w] = result]
       /\ wpc' = [wpc EXCEPT ![w] = AfterStore(result)]
  /\ UNCHANGED <<fdVars, active, clk, coarse, queue, cache, notify, expired,
                 wjob, cacheLog, pushCount, skipped, recExpired, pushLog>>
  /\ UNCHANGED capVars
  /\ UNCHANGED faultVars

\* variant: an existing cache entry is kept (set with NX)
WorkerStoreCacheKeepFirst(w) ==
  /\ wpc[w] = "cache"
  /\ cache' = [cache EXCEPT ![wjob[w].cache_key] =
                 IF @ = None THEN wdata[w] ELSE @]
  /\ cacheLog' = cacheLog \cup {wdata[w].render_id}
  /\ wpc' = [wpc EXCEPT ![w] = "notify"]
  /\ UNCHANGED <<fdVars, active, clk, coarse, queue, record, notify, expired,
                 wjob, wdata, lastWrite, termWrites, pushCount, skipped,
                 recExpired, pushLog>>
  /\ UNCHANGED capVars
  /\ UNCHANGED faultVars

\* store_result: setex(cache_key, CACHE_TTL_SECONDS, result)
WorkerStoreCache(w) ==
  /\ wpc[w] = "cache"
  /\ cache' = [cache EXCEPT ![wjob[w].cache_key] = wdata[w]]
  /\ cacheLog' = cacheLog \cup {wdata[w].render_id}
  /\ wpc' = [wpc EXCEPT ![w] = "notify"]
  /\ UNCHANGED <<fdVars, active, clk, coarse, queue, record, notify, expired,
                 wjob, wdata, lastWrite, termWrites, pushCount, skipped,
                 recExpired, pushLog>>
  /\ UNCHANGED capVars
  /\ UNCHANGED faultVars

\* variant: two tokens are pushed
WorkerNotifyTwice(w) ==
  /\ wpc[w] = "notify"
  /\ notify' = [notify EXCEPT ![wdata[w].render_id] = @ + 2]
  /\ pushCount' = [pushCount EXCEPT ![wdata[w].render_id] = @ + 2]
  /\ wpc' = [wpc EXCEPT ![w] = LoopTest(w)]
  /\ wjob' = [wjob EXCEPT ![w] = NoJob]
  /\ wdata' = [wdata EXCEPT ![w] = None]
  /\ UNCHANGED <<fdVars, active, clk, coarse, queue, record, cache, expired,
                 lastWrite, termWrites, cacheLog, skipped, recExpired, pushLog>>
  /\ UNCHANGED capVars
  /\ UNCHANGED faultVars

\* store_result: lpush(notify_key, "ready"); expire(notify_key, 60)
WorkerNotify(w) ==
  /\ wpc[w] = "notify"
  /\ notify' = [notify EXCEPT ![wdata[w].render_id] = @ + 1]
  /\ pushCount' = [pushCount EXCEPT ![wdata[w].render_id] = @ + 1]
  /\ wpc' = [wpc EXCEPT ![w] = LoopTest(w)]
  /\ wjob' = [wjob EXCEPT ![w] = NoJob]
  /\ wdata' = [wdata EXCEPT ![w] = None]
  /\ UNCHANGED <<fdVars, active, clk, coarse, queue, record, cache, expired,
                 lastWrite, termWrites, cacheLog, skipped, recExpired, pushLog>>
  /\ UNCHANGED capVars
  /\ UNCHANGED faultVars

\* ------------------------------------------------------------------------
\* Worker: signals, timeouts, exceptions, death of the process
\* ------------------------------------------------------------------------
\* signal_handler (SIGTERM, SIGINT): running = False
Signal(w) ==
  /\ running[w]
  /\ wpc[w] \notin {"stopped", "crashed"}
  /\ running' = [running EXCEPT ![w] = FALSE]
  /\ UNCHANGED <<fdVars, active, clk, coarse, storeVars, expired, workerVars,
                 histVars, injected, misplaced, anchorVars>>
  /\ UNCHANGED capVars

\* brpop returns None after 5 s without a job: continue, then the loop test
WorkerPopTimeout(w) ==
  /\ wpc[w] = "pop"
  /\ queue = <<>>
  /\ cqueue = <<>>
  /\ wpc' = [wpc EXCEPT ![w] = LoopTest(w)]
  /\ UNCHANGED <<fdVars, active, clk, coarse, storeVars, expired, wjob, wdata,
                 histVars>>
  /\ UNCHANGED capVars
  /\ UNCHANGED faultVars

\* some other client of the store pushes an entry that is not JSON
InjectMalformed ==
  /\ injected < MaxBad
  /\ injected' = injected + 1
  /\ queue' = enqueue_job(queue, Malformed)
  /\ UNCHANGED <<fdVars, active, clk, coarse, record, cache, notify, expired,
                 workerVars, histVars, running, misplaced, anchorVars>>
  /\ UNCHANGED capVars

\* brpop returns a malformed entry: json.loads raises, "except Exception"
\* logs it and sleeps 1 s, then the loop test
WorkerPopMalformed(w) ==
  /\ wpc[w] = "pop"
  /\ queue # <<>>
  /\ queue[Len(queue)] = Malformed
  /\ queue' = SubSeq(queue, 1, Len(queue) - 1)
  /\ wpc' = [wpc EXCEPT ![w] = LoopTest(w)]
  /\ UNCHANGED <<fdVars, active, clk, coarse, record, cache, notify, expired,
                 wjob, wdata, histVars>>
  /\ UNCHANGED capVars
  /\ UNCHANGED faultVars

\* variant: an exception ends the loop
AfterExceptStops(w) == "stopped"

\* where a worker is after one of the two except clauses of the loop
AfterExcept(w) == LoopTest(w)

\* a store call made while a job is handled raises (redis.ConnectionError,
\* or any other Exception): the except clause logs, sleeps (and pings or
\* reconnects), the job in hand is dropped, then the loop test
WorkerExcept(w) ==
  /\ wpc[w] \in {"guard", "upd_get", "upd_set", "pipeline", "cache", "notify"}
  /\ wpc' = [wpc EXCEPT ![w] = AfterExcept(w)]
  /\ wjob' = [wjob EXCEPT ![w] = NoJob]
  /\ wdata' = [wdata EXCEPT ![w] = None]
  /\ UNCHANGED <<fdVars, active, clk, coarse, storeVars, expired, histVars>>
  /\ UNCHANGED capVars
  /\ UNCHANGED faultVars

\* the worker process dies (kill -9, out of memory, power): nothing of the
\* code runs any more; what it held stays as it was
WorkerCrash(w) ==
  /\ wpc[w] \notin {"stopped", "crashed"}
  /\ wpc' = [wpc EXCEPT ![w] = "crashed"]
  /\ UNCHANGED <<fdVars, active, clk, coarse, storeVars, expired, wjob, wdata,
                 histVars>>
  /\ UNCHANGED capVars
  /\ UNCHANGED faultVars

\* ------------------------------------------------------------------------
\* Store: TTL expiry
\* ------------------------------------------------------------------------
\* The TTLs (60 s, 1 h, 7 days) run out only while time passes: every
\* handler is blocked in its brpop or absent, every worker is blocked in its
\* brpop or inside the pipeline.  Between two consecutive store calls of a
\* handler no TTL runs out.
TimeCanPass ==
  /\ \A r \in Reqs :
       \/ pc[r] \in {"idle", "done"}
       \/ pc[r] = "s_brpop" /\ notify[rid[r]] = 0
  /\ \A w \in Workers :
       \/ wpc[w] = "pop" /\ queue = <<>>
       \/ wpc[w] = "pipeline"
       \/ wpc[w] \in {"stopped", "crashed"}

\* RESULT_TTL_SECONDS elapsed
ExpireRecord(id) ==
  /\ TimeCanPass
  /\ expired < MaxExpired
  /\ record[id] # None
  /\ record' = [record EXCEPT ![id] = None]
  /\ expired' = expired + 1
  /\ recExpired' = recExpired \cup {id}
  /\ UNCHANGED <<fdVars, active, clk, coarse, queue, cache, notify,
                 workerVars, lastWrite, termWrites, cacheLog, pushCount,
                 skipped, pushLog>>
  /\ UNCHANGED capVars
  /\ UNCHANGED faultVars

\* CACHE_TTL_SECONDS elapsed
ExpireCache(k) ==
  /\ TimeCanPass
  /\ expired < MaxExpired
  /\ cache[k] # None
  /\ cache' = [cache EXCEPT ![k] = None]
  /\ expired' = expired + 1
  /\ UNCHANGED <<fdVars, active, clk, coarse, queue, record, notify,
                 workerVars, histVars>>
  /\ UNCHANGED capVars
  /\ UNCHANGED faultVars

\* the 60 s of the notify key elapsed
ExpireNotify(id) ==
  /\ TimeCanPass
  /\ expired < MaxExpired
  /\ notify[id] > 0
  /\ notify' = [notify EXCEPT ![id] = 0]
  /\ expired' = expired + 1
  /\ UNCHANGED <<fdVars, active, clk, coarse, queue, record, cache,
                 workerVars, histVars>>
  /\ UNCHANGED capVars
  /\ UNCHANGED faultVars

\* ------------------------------------------------------------------------
\* Capture Intake: process_capture, get_job_status
\* ------------------------------------------------------------------------
\* the variables of the render side that no capture step changes
renderVars ==
  <<fdVars, active, clk, coarse, storeVars, wjob, wdata, histVars>>

\* the CaptureStatus written at submission
InitialStatus(job_id) ==
  [job_id |-> job_id, status |-> "queued", progress |-> 0,
   logs |-> <<"queued">>, error |-> "none", outputs |-> FALSE]

\* job_data of a capture job
CaptureJobData(job_id) ==
  [NoJob EXCEPT !.type = "capture_processing", !.job_id = job_id]

\* RPUSH (ValkeyClient.push_job): new jobs enter at the tail
push_job(q, job_data) == Append(q, job_data)

\* ------------------------------------------------------------------------
\* Capture Intake: upload_capture
\* ------------------------------------------------------------------------
\* the request arrives: 400 for a bad avatar_id; otherwise a fresh capture_id
\* and the file written to CAPTURES_DIR chunk by chunk
UploadWrite(u) ==
  /\ upc[u] = "idle"
  /\ u > 1 => upc[u - 1] # "idle"
  /\ \E ok \in BOOLEAN, size \in FileSizes :
       /\ uinput' = [uinput EXCEPT ![u] =
                       [avatar_ok |-> ok, file_size |-> size]]
       /\ IF ok
            THEN /\ files' = files \cup {UploadId(u)}
                 /\ upc' = [upc EXCEPT ![u] = "u_written"]
                 /\ uresp' = uresp
            ELSE /\ files' = files
                 /\ upc' = [upc EXCEPT ![u] = "done"]
                 /\ uresp' = [uresp EXCEPT ![u] =
                                [NoUploadResp EXCEPT !.code = "400_avatar"]]
  /\ UNCHANGED <<renderVars, wpc, expired, cpc, cinput, cresp, cqueue,
                 cstatus, cjob, wstage, cresult, progLog, lastLogs, cpushLog,
                 ranStage, failedStage>>
  /\ UNCHANGED faultVars

\* the size check: the file of a rejected upload is removed
SizeCheck(file_size) ==
  IF file_size < min_size THEN "400_too_small"
  ELSE IF file_size > max_size THEN "400_too_large"
  ELSE "200"

\* variant: the size check answers 400 and leaves the file on disk
UploadValidateKeepsFile(u) ==
  /\ upc[u] = "u_written"
  /\ LET code == SizeCheck(uinput[u].file_size) IN
       /\ files' = files
       /\ uresp' = [uresp EXCEPT ![u] =
                      IF code = "200"
                        THEN [code |-> "200", capture_id |-> UploadId(u),
                              size_bytes |-> uinput[u].file_size]
                        ELSE [NoUploadResp EXCEPT !.code = code]]
  /\ upc' = [upc EXCEPT ![u] = "done"]
  /\ UNCHANGED <<renderVars, wpc, expired, uinput, cpc, cinput, cresp,
                 cqueue, cstatus, cjob, wstage, cresult, progLog, lastLogs,
                 cpushLog, ranStage, failedStage>>
  /\ UNCHANGED faultVars

UploadValidate(u) ==
  /\ upc[u] = "u_written"
  /\ LET code == SizeCheck(uinput[u].file_size) IN
       IF code = "200"
         THEN /\ files' = files
              /\ uresp' = [uresp EXCEPT ![u] =
                             [code |-> "200", capture_id |-> UploadId(u),
                              size_bytes |-> uinput[u].file_size]]
         ELSE /\ files' = files \ {UploadId(u)}
              /\ uresp' = [uresp EXCEPT ![u] =
                             [NoUploadResp EXCEPT !.code = code]]
  /\ upc' = [upc EXCEPT ![u] = "done"]
  /\ UNCHANGED <<renderVars, wpc, expired, uinput, cpc, cinput, cresp,
                 cqueue, cstatus, cjob, wstage, cresult, progLog, lastLogs,
                 cpushLog, ranStage, failedStage>>
  /\ UNCHANGED faultVars

\* reading or writing the upload raises: answered 500, the file stays
UploadException(u) ==
  /\ upc[u] = "u_written"
  /\ uresp' = [uresp EXCEPT ![u] = [NoUploadResp EXCEPT !.code = "500"]]
  /\ upc' = [upc EXCEPT ![u] = "done"]
  /\ UNCHANGED <<renderVars, wpc, expired, uinput, files, cpc, cinput, cresp,
                 cqueue, cstatus, cjob, wstage, cresult, progLog, lastLogs,
                 cpushLog, ranStage, failedStage>>
  /\ UNCHANGED faultVars

\* the capture_id of an upload is a uuid4 made by the handler: no request
\* names it before the handler has answered
Nameable(capture_id) ==
  \A u \in Uploads : capture_id = UploadId(u) => upc[u] = "done"

\* ------------------------------------------------------------------------
\* Capture Intake: process_capture
\* ------------------------------------------------------------------------
\* a process request arrives: 404 unless the file of the capture is on disk
SubmitCapture(c) ==
  /\ cpc[c] = "idle"
  /\ c > 1 => cpc[c - 1] # "idle"
  /\ \E capture_id \in CaptureIds :
       /\ Nameable(capture_id)
       /\ cinput' = [cinput EXCEPT ![c] = capture_id]
       /\ IF capture_id \in files
            THEN /\ cpc' = [cpc EXCEPT ![c] = "c_set"]
                 /\ cresp' = cresp
            ELSE /\ cpc' = [cpc EXCEPT ![c] = "done"]
                 /\ cresp' = [cresp EXCEPT ![c] = "404"]
  /\ UNCHANGED upVars
  /\ UNCHANGED faultVars
  /\ UNCHANGED <<renderVars, wpc, expired, files, cqueue, cstatus, cjob,
                 wstage, cresult, progLog, lastLogs, cpushLog, ranStage,
                 failedStage>>

\* variant: the initial status is not written
CaptureSetStatusSkip(c) ==
  /\ cpc[c] = "c_set"
  /\ cpc' = [cpc EXCEPT ![c] = "c_push"]
  /\ UNCHANGED upVars
  /\ UNCHANGED faultVars
  /\ UNCHANGED <<renderVars, wpc, expired, cinput, cresp, files, cqueue,
                 cstatus, cjob, wstage, cresult, progLog, lastLogs, cpushLog,
                 ranStage, failedStage>>

\* set_json(status_key, initial_status, ttl=3600)
CaptureSetStatus(c) ==
  /\ cpc[c] = "c_set"
  /\ cstatus' = [cstatus EXCEPT ![c] = InitialStatus(c)]
  /\ progLog' = [progLog EXCEPT ![c] = Append(@, InitialStatus(c).progress)]
  /\ lastLogs' = [lastLogs EXCEPT ![c] = InitialStatus(c).logs]
  /\ cpc' = [cpc EXCEPT ![c] = "c_push"]
  /\ UNCHANGED upVars
  /\ UNCHANGED faultVars
  /\ UNCHANGED <<renderVars, wpc, expired, cinput, cresp, files, cqueue, cjob,
                 wstage, cresult, cpushLog, ranStage, failedStage>>

\* push_job(CAPTURE_JOB_QUEUE_KEY, job_data); answer job_id, "queued"
CapturePush(c) ==
  /\ cpc[c] = "c_push"
  /\ cqueue' = push_job(cqueue, CaptureJobData(c))
  /\ cpushLog' = Append(cpushLog, c)
  /\ cresp' = [cresp EXCEPT ![c] = "queued"]
  /\ cpc' = [cpc EXCEPT ![c] = "done"]
  /\ UNCHANGED upVars
  /\ UNCHANGED faultVars
  /\ UNCHANGED <<renderVars, wpc, expired, cinput, files, cstatus, cjob,
                 wstage, cresult, progLog, lastLogs, ranStage, failedStage>>

\* a store call of process_capture raises: answered 500
CaptureException(c) ==
  /\ cpc[c] \in {"c_set", "c_push"}
  /\ cresp' = [cresp EXCEPT ![c] = "500"]
  /\ cpc' = [cpc EXCEPT ![c] = "done"]
  /\ UNCHANGED upVars
  /\ UNCHANGED faultVars
  /\ UNCHANGED <<renderVars, wpc, expired, cinput, files, cqueue, cstatus,
                 cjob, wstage, cresult, progLog, lastLogs, cpushLog, ranStage,
                 failedStage>>

\* get_job_status: the answer to a poll of job_id in the current state
get_job_status(job_id) ==
  IF cstatus[job_id] = NoStatus
    THEN [kind |-> "404", body |-> NoStatus]
    ELSE [kind |-> "status", body |-> cstatus[job_id]]

\* ------------------------------------------------------------------------
\* Worker: capture jobs (run_worker, process_capture_job, update_job_status)
\* ------------------------------------------------------------------------
\* The status key of a job_id is written by the intake before the job is
\* pushed and afterwards only by the worker that holds the job, so the GET
\* and the SET of one read-modify-write are taken as one step.  A step of
\* process_capture_job is one update_job_status and the stage that follows
\* it; the time a stage takes passes at the end of its step.

\* variant: two progress values are exchanged
StageProgressSwapped == <<10, 20, 40, 30, 50, 65, 75, 85, 90, 95>>

\* progress written before each stage of process_capture_job
StageProgress == <<10, 20, 30, 40, 50, 65, 75, 85, 90, 95>>
NumStages == Len(StageProgress)

\* the log line written before each stage
StageLog ==
  <<"normalize", "base_face", "idle_loop", "landmarks", "visemes", "eyes",
    "masks", "spritesheet", "manifest", "zip">>

\* variant: the second list is served although the first holds a job
WorkerPopCaptureFirst(w) ==
  /\ wpc[w] = "pop"
  /\ cqueue # <<>>
  /\ IsCapture(cqueue[Len(cqueue)])
  /\ cjob' = [cjob EXCEPT ![w] = cqueue[Len(cqueue)].job_id]
  /\ cqueue' = SubSeq(cqueue, 1, Len(cqueue) - 1)
  /\ wpc' = [wpc EXCEPT ![w] = "c_stage"]
  /\ wstage' = [wstage EXCEPT ![w] = 1]
  /\ UNCHANGED upVars
  /\ UNCHANGED faultVars
  /\ UNCHANGED <<renderVars, expired, cpc, cinput, cresp, files, cstatus,
                 cresult, progLog, lastLogs, cpushLog, ranStage, failedStage>>

\* brpop([JOB_QUEUE_KEY, CAPTURE_JOB_QUEUE_KEY]): the first list is empty,
\* the job at the tail of the second is taken; type = capture_processing
WorkerPopCapture(w) ==
  /\ wpc[w] = "pop"
  /\ queue = <<>>
  /\ cqueue # <<>>
  /\ IsCapture(cqueue[Len(cqueue)])
  /\ cjob' = [cjob EXCEPT ![w] = cqueue[Len(cqueue)].job_id]
  /\ cqueue' = SubSeq(cqueue, 1, Len(cqueue) - 1)
  /\ wpc' = [wpc EXCEPT ![w] = "c_stage"]
  /\ wstage' = [wstage EXCEPT ![w] = 1]
  /\ UNCHANGED upVars
  /\ UNCHANGED faultVars
  /\ UNCHANGED <<renderVars, expired, cpc, cinput, cresp, files, cstatus,
                 cresult, progLog, lastLogs, cpushLog, ranStage, failedStage>>

\* variant: the logs list is replaced by the new line
update_job_status_reset(current, status, progress, log_message) ==
  LET status_data == IF current # NoStatus THEN current
                     ELSE [NoStatus EXCEPT !.logs = <<>>]
  IN [status_data EXCEPT !.status = status, !.progress = progress,
                         !.logs = <<log_message>>]

\* update_job_status: the dictionary stored for what was read
update_job_status(current, status, progress, log_message) ==
  LET status_data == IF current # NoStatus THEN current
                     ELSE [NoStatus EXCEPT !.logs = <<>>]
  IN [status_data EXCEPT !.status = status, !.progress = progress,
                         !.logs = Append(@, log_message)]

\* the write of update_job_status by worker w, with its history
UpdateJobStatus(w, status, progress, log_message) ==
  LET new == update_job_status(cstatus[cjob[w]], status, progress, log_message)
  IN /\ cstatus' = [cstatus EXCEPT ![cjob[w]] = new]
     /\ progLog' = [progLog EXCEPT ![cjob[w]] = Append(@, progress)]
     /\ lastLogs' = [lastLogs EXCEPT ![cjob[w]] = new.logs]

\* the progress that the except clause of process_capture_job writes
FailureProgress == 0

\* variant: the failure of a stage is not raised and the next stage follows
CaptureStageGoesOn(w) ==
  /\ wpc[w] = "c_stage"
  /\ wstage[w] \in 1..NumStages
  /\ UpdateJobStatus(w, "processing", StageProgress[wstage[w]],
                     StageLog[wstage[w]])
  /\ ranStage' = [ranStage EXCEPT ![cjob[w]] = wstage[w]]
  /\ \/ /\ wstage' = [wstage EXCEPT ![w] = @ + 1]
        /\ UNCHANGED <<wpc, failedStage>>
     \/ /\ wstage' = [wstage EXCEPT ![w] = @ + 1]
        /\ failedStage' = [failedStage EXCEPT ![cjob[w]] = wstage[w]]
        /\ UNCHANGED wpc
  /\ UNCHANGED upVars
  /\ UNCHANGED faultVars
  /\ UNCHANGED <<renderVars, expired, cpc, cinput, cresp, files, cqueue, cjob,
                 cresult, cpushLog>>

\* steps 1 to 10: update_job_status(processing, progress of the stage), then
\* the stage runs and returns, or it fails and raises
CaptureStage(w) ==
  /\ wpc[w] = "c_stage"
  /\ wstage[w] \in 1..NumStages
  /\ UpdateJobStatus(w, "processing", StageProgress[wstage[w]],
                     StageLog[wstage[w]])
  /\ ranStage' = [ranStage EXCEPT ![cjob[w]] = wstage[w]]
  /\ \/ /\ wstage' = [wstage EXCEPT ![w] = @ + 1]
        /\ UNCHANGED <<wpc, failedStage>>
     \/ /\ wpc' = [wpc EXCEPT ![w] = "c_fail"]
        /\ failedStage' = [failedStage EXCEPT ![cjob[w]] = wstage[w]]
        /\ UNCHANGED wstage
  /\ UNCHANGED upVars
  /\ UNCHANGED faultVars
  /\ UNCHANGED <<renderVars, expired, cpc, cinput, cresp, files, cqueue, cjob,
                 cresult, cpushLog>>

\* after step 10: update_job_status(completed, 100); return the outputs
CaptureComplete(w) ==
  /\ wpc[w] = "c_stage"
  /\ wstage[w] = NumStages + 1
  /\ UpdateJobStatus(w, "completed", 100, "done")
  /\ cresult' = [cresult EXCEPT ![w] = [status |-> "completed",
                                        error |-> "none"]]
  /\ wpc' = [wpc EXCEPT ![w] = "c_merge"]
  /\ UNCHANGED upVars
  /\ UNCHANGED faultVars
  /\ UNCHANGED <<renderVars, expired, cpc, cinput, cresp, files, cqueue, cjob,
                 wstage, cpushLog, ranStage, failedStage>>

\* except clause: update_job_status(failed, 0, error); return the error
CaptureFail(w) ==
  /\ wpc[w] = "c_fail"
  /\ UpdateJobStatus(w, "failed", FailureProgress, "error")
  /\ cresult' = [cresult EXCEPT ![w] = [status |-> "failed",
                                        error |-> StageLog[wstage[w]]]]
  /\ wpc' = [wpc EXCEPT ![w] = "c_merge"]
  /\ UNCHANGED upVars
  /\ UNCHANGED faultVars
  /\ UNCHANGED <<renderVars, expired, cpc, cinput, cresp, files, cqueue, cjob,
                 wstage, cpushLog, ranStage, failedStage>>

\* run_worker: status_data.update(capture_result) on what the key holds
\* ({} when it is gone)
MergeResult(current, capture_result) ==
  [current EXCEPT
     !.status = capture_result.status,
     !.error = IF capture_result.status = "failed"
                 THEN capture_result.error ELSE @,
     !.outputs = IF capture_result.status = "completed" THEN TRUE ELSE @]

\* run_worker: the final status update of a capture job
CaptureMerge(w) ==
  /\ wpc[w] = "c_merge"
  /\ cstatus' = [cstatus EXCEPT ![cjob[w]] = MergeResult(@, cresult[w])]
  /\ lastLogs' = [lastLogs EXCEPT ![cjob[w]] = cstatus[cjob[w]].logs]
  /\ wpc' = [wpc EXCEPT ![w] = LoopTest(w)]
  /\ cjob' = [cjob EXCEPT ![w] = 0]
  /\ wstage' = [wstage EXCEPT ![w] = 0]
  /\ cresult' = [cresult EXCEPT ![w] = NoCaptureResult]
  /\ UNCHANGED upVars
  /\ UNCHANGED faultVars
  /\ UNCHANGED <<renderVars, expired, cpc, cinput, cresp, files, cqueue,
                 progLog, cpushLog, ranStage, failedStage>>

\* The TTL of a status key (3600 s after its last write) runs out only
\* while time passes: no intake handler is between two store calls, every
\* worker is blocked in its brpop or at the end of a pipeline stage.
TimeCanPassCapture ==
  /\ \A c \in CapReqs : cpc[c] \in {"idle", "done"}
  /\ \A w \in Workers :
       \/ wpc[w] = "pop" /\ queue = <<>> /\ cqueue = <<>>
       \/ wpc[w] = "c_stage" /\ wstage[w] > 1
       \/ wpc[w] = "c_fail"
       \/ wpc[w] \in {"stopped", "crashed"}

\* the 3600 s of a status key elapsed
ExpireStatus(j) ==
  /\ TimeCanPassCapture
  /\ expired < MaxExpired
  /\ cstatus[j] # NoStatus
  /\ cstatus' = [cstatus EXCEPT ![j] = NoStatus]
  /\ expired' = expired + 1
  /\ UNCHANGED upVars
  /\ UNCHANGED faultVars
  /\ UNCHANGED <<renderVars, wpc, cpc, cinput, cresp, files, cqueue, cjob,
                 wstage, cresult, progLog, lastLogs, cpushLog, ranStage,
                 failedStage>>

\* ------------------------------------------------------------------------
\* Specification
\* ------------------------------------------------------------------------
FrontDoorStep(r) ==
  \/ SubmitSync(r)
  \/ SyncCacheLookup(r)
  \/ SyncEnqueue(r)
  \/ SyncException(r)
  \/ WaitGet(r)
  \/ WaitBrpop(r)
  \/ WaitTimeout(r)
  \/ WaitGet2(r)
  \/ SubmitAsync(r)
  \/ AsyncCacheLookup(r)
  \/ AsyncSetHit(r)
  \/ AsyncSetPending(r)
  \/ AsyncEnqueue(r)

WorkerStep(w) ==
  \/ WorkerPop(w)
  \/ WorkerGuard(w)
  \/ WorkerUpdGet(w)
  \/ WorkerUpdSet(w)
  \/ WorkerStoreResult(w)
  \/ WorkerStoreCache(w)
  \/ WorkerNotify(w)

Expire ==
  \/ \E id \in RenderIds : ExpireRecord(id)
  \/ \E k \in CacheKeys : ExpireCache(k)
  \/ \E id \in RenderIds : ExpireNotify(id)

Next ==
  \/ \E r \in Reqs : FrontDoorStep(r)
  \/ \E w \in Workers : WorkerStep(w)
  \/ Expire

Spec == Init /\ [][Next]_vars

\* the steps of render_async
AsyncStep(r) ==
  \/ SubmitAsync(r)
  \/ AsyncCacheLookup(r)
  \/ AsyncSetHit(r)
  \/ AsyncSetPending(r)
  \/ AsyncEnqueue(r)

\* async submissions and the workers with shutdown signals, pop timeouts,
\* malformed queue entries and raising store calls (no TTL runs out)
FaultStep(w) ==
  \/ Signal(w)
  \/ WorkerPopTimeout(w)
  \/ WorkerPopMalformed(w)
  \/ WorkerExcept(w)

NextFaults ==
  \/ \E r \in Reqs : AsyncStep(r)
  \/ \E w \in Workers : WorkerStep(w)
  \/ InjectMalformed
  \/ \E w \in Workers : FaultStep(w)

SpecFaults == Init /\ [][NextFaults]_vars

\* the render side with worker processes that may die
NextCrash ==
  \/ Next
  \/ \E w \in Workers : WorkerCrash(w)

SpecCrash == Init /\ [][NextCrash]_vars

\* the clock may return the same value to two reads (finite resolution)
InitCoarse == InitCommon /\ coarse = TRUE /\ InitAnchors
SpecCoarse == InitCoarse /\ [][Next]_vars

\* the capture side: process requests, workers on capture jobs, expiry of
\* status keys (the render queue stays empty)
CaptureIntakeStep(c) ==
  \/ SubmitCapture(c)
  \/ CaptureSetStatus(c)
  \/ CapturePush(c)
  \/ CaptureException(c)

CaptureWorkerStep(w) ==
  \/ WorkerPopCapture(w)
  \/ CaptureStage(w)
  \/ CaptureComplete(w)
  \/ CaptureFail(w)
  \/ CaptureMerge(w)

NextCapture ==
  \/ \E c \in CapReqs : CaptureIntakeStep(c)
  \/ \E w \in Workers : CaptureWorkerStep(w)
  \/ \E j \in JobIds : ExpireStatus(j)

SpecCapture == Init /\ [][NextCapture]_vars

\* the handlers that write to the store (render_async, process_capture) and
\* the workers, which serve both queues (no TTL runs out)
NextAll ==
  \/ \E r \in Reqs : AsyncStep(r)
  \/ \E w \in Workers : WorkerStep(w)
  \/ \E c \in 1..MaxCapAll : CaptureIntakeStep(c)
  \/ \E w \in Workers : CaptureWorkerStep(w)

SpecAll == Init /\ [][NextAll]_vars

\* ------------------------------------------------------------------------
\* Dispatch of a dequeued job: jobs of either kind on either queue
\* ------------------------------------------------------------------------
\* values of the key "type" a job may carry ("none": the key is missing)
JobTypes == {"none", "other", "capture_processing"}

\* job_data of a render job for an input and a time, with a key "type"
RenderJobData(i, t, type) ==
  [render_id |-> generate_render_id(i.voice_id, i.speed, i.text, t),
   cache_key |-> generate_cache_key(i.voice_id, i.speed, i.text),
   input |-> i,
   type |-> type,
   job_id |-> 0]

\* the jobs a client of the store may push as its n-th job: render jobs for
\* one input and one render_id with another type or none, and a capture job
\* with the n-th job_id
AnyJobs(n) ==
  { RenderJobData(i, 1, type) :
      i \in {x \in Inputs : x.voice_id = "amy" /\ x.speed = 1000},
      type \in JobTypes \ {"capture_processing"} }
  \cup { CaptureJobData(n) }

\* the queue a producer of the repository pushes the job on
HomeKey(job_data) == IF IsCapture(job_data) THEN "capture" ELSE "render"

\* a client of the store pushes a job on one of the two queues: LPUSH on
\* avatar:jobs, RPUSH on avatar:capture:jobs
InjectJob ==
  /\ injected < MaxMis
  /\ injected + 1 \in JobIds
  /\ injected' = injected + 1
  /\ \E job_data \in AnyJobs(injected + 1), key \in {"render", "capture"} :
       /\ IF key = "render"
            THEN queue' = enqueue_job(queue, job_data) /\ UNCHANGED cqueue
            ELSE cqueue' = push_job(cqueue, job_data) /\ UNCHANGED queue
       /\ misplaced' = IF key = HomeKey(job_data) THEN misplaced
                       ELSE misplaced \cup {job_data}
  /\ UNCHANGED <<fdVars, active, clk, coarse, record, cache, notify, expired,
                 workerVars, histVars, running, anchorVars>>
  /\ UNCHANGED upVars
  /\ UNCHANGED <<cpc, cinput, cresp, files, cstatus, cjob, wstage, cresult,
                 progLog, lastLogs, cpushLog, ranStage, failedStage>>

\* variant: the job taken from avatar:jobs is handled as a render job
\* whatever its type
WorkerPopDispatchByKey(w) ==
  /\ wpc[w] = "pop"
  /\ queue # <<>>
  /\ IsCapture(queue[Len(queue)])
  /\ wjob' = [wjob EXCEPT ![w] = queue[Len(queue)]]
  /\ queue' = SubSeq(queue, 1, Len(queue) - 1)
  /\ wpc' = [wpc EXCEPT ![w] = "guard"]
  /\ UNCHANGED <<fdVars, active, clk, coarse, record, cache, notify, expired,
                 wdata, histVars>>
  /\ UNCHANGED capVars
  /\ UNCHANGED faultVars

\* brpop takes a job of type capture_processing from avatar:jobs: the
\* capture pipeline handles it
WorkerPopCaptureFromRender(w) ==
  /\ wpc[w] = "pop"
  /\ queue # <<>>
  /\ IsCapture(queue[Len(queue)])
  /\ cjob' = [cjob EXCEPT ![w] = queue[Len(queue)].job_id]
  /\ queue' = SubSeq(queue, 1, Len(queue) - 1)
  /\ wpc' = [wpc EXCEPT ![w] = "c_stage"]
  /\ wstage' = [wstage EXCEPT ![w] = 1]
  /\ UNCHANGED <<fdVars, active, clk, coarse, record, cache, notify, expired,
                 wjob, wdata, histVars>>
  /\ UNCHANGED upVars
  /\ UNCHANGED faultVars
  /\ UNCHANGED <<cpc, cinput, cresp, files, cqueue, cstatus, cresult,
                 progLog, lastLogs, cpushLog, ranStage, failedStage>>

\* brpop finds avatar:jobs empty and takes a job of another type, or of no
\* type, from avatar:capture:jobs: the render pipeline handles it
WorkerPopRenderFromCapture(w) ==
  /\ wpc[w] = "pop"
  /\ queue = <<>>
  /\ cqueue # <<>>
  /\ ~IsCapture(cqueue[Len(cqueue)])
  /\ wjob' = [wjob EXCEPT ![w] = cqueue[Len(cqueue)]]
  /\ cqueue' = SubSeq(cqueue, 1, Len(cqueue) - 1)
  /\ wpc' = [wpc EXCEPT ![w] = "guard"]
  /\ UNCHANGED <<fdVars, active, clk, coarse, queue, record, cache, notify,
                 expired, wdata, histVars>>
  /\ UNCHANGED upVars
  /\ UNCHANGED faultVars
  /\ UNCHANGED <<cpc, cinput, cresp, files, cstatus, cjob, wstage, cresult,
                 progLog, lastLogs, cpushLog, ranStage, failedStage>>

DispatchStep(w) ==
  \/ WorkerPopCaptureFromRender(w)
  \/ WorkerPopRenderFromCapture(w)

NextDispatch ==
  \/ InjectJob
  \/ \E w \in Workers : WorkerStep(w)
  \/ \E w \in Workers : CaptureWorkerStep(w)
  \/ \E w \in Workers : DispatchStep(w)

SpecDispatch == Init /\ [][NextDispatch]_vars

\* ------------------------------------------------------------------------
\* Anchor boxes: clamp_bbox
\* ------------------------------------------------------------------------
Max(a, b) == IF a >= b THEN a ELSE b
Min(a, b) == IF a <= b THEN a ELSE b

\* compute_bbox_from_landmarks: a box of non-negative size with its centre;
\* the padding may put its corner left of or above the frame, and landmarks
\* outside the image may put it beyond the frame
Boxes ==
  { [x |-> x, y |-> y, w |-> w, h |-> h,
     cx |-> x + (w \div 2), cy |-> y + (h \div 2)] :
      x \in -1..(MaxFrame + 1), y \in -1..(MaxFrame + 1),
      w \in 0..MaxSide, h \in 0..MaxSide }

\* frame sizes (width, height)
Frames ==
  { [max_width |-> mw, max_height |-> mh] :
      mw \in 1..MaxFrame, mh \in 1..MaxFrame }

\* clamp_bbox: x = max(0, x), y = max(0, y), w = min(w, max_width - x),
\* h = min(h, max_height - y); cx and cy are passed through
clamp_bbox(b, max_width, max_height) ==
  LET x == Max(0, b.x)
      y == Max(0, b.y)
      w == Min(b.w, max_width - x)
      h == Min(b.h, max_height - y)
  IN [x |-> x, y |-> y, w |-> w, h |-> h, cx |-> b.cx, cy |-> b.cy]

\* a caller clamps an anchor box to its frame
Clamp ==
  /\ clamped = NoBox
  /\ clamped' = clamp_bbox(bbox, frame.max_width, frame.max_height)
  /\ UNCHANGED <<fdVars, active, clk, coarse, storeVars, expired, workerVars,
                 histVars, running, injected, misplaced, bbox, frame>>
  /\ UNCHANGED capVars

\* any box for any frame size
InitClamp ==
  /\ InitCommon
  /\ coarse = FALSE
  /\ bbox \in Boxes
  /\ frame \in Frames
  /\ clamped = NoBox

SpecClamp == InitClamp /\ [][Clamp]_vars

\* shutdown: async submissions, the workers, signals and brpop timeouts;
\* a worker process keeps taking its steps and a brpop returns after 5 s
ShutdownStep(w) ==
  \/ Signal(w)
  \/ WorkerPopTimeout(w)

NextShutdown ==
  \/ \E r \in Reqs : AsyncStep(r)
  \/ \E w \in Workers : WorkerStep(w)
  \/ \E w \in Workers : ShutdownStep(w)

SpecShutdown ==
  /\ Init
  /\ [][NextShutdown]_vars
  /\ \A w \in Workers : WF_vars(WorkerStep(w) \/ WorkerPopTimeout(w))

\* uploads and the process requests that name them
UploadStep(u) ==
  \/ UploadWrite(u)
  \/ UploadValidate(u)
  \/ UploadException(u)

NextUpload ==
  \/ \E u \in Uploads : UploadStep(u)
  \/ \E c \in CapReqs : CaptureIntakeStep(c)

SpecUpload == Init /\ [][NextUpload]_vars

\* the workers keep running: each worker takes its enabled steps
LiveSpec == Init /\ [][Next]_vars /\ \A w \in Workers : WF_vars(WorkerStep(w))

\* ------------------------------------------------------------------------
\* Properties
\* ------------------------------------------------------------------------
CacheKeyOf(r) ==
  generate_cache_key(input[r].voice_id, input[r].speed, input[r].text)

\* a sync submission holds an admission slot
SyncHolding(r) == mode[r] = "sync" /\ pc[r] \notin {"idle", "done"}

\* a sync submission was answered with the timeout failure
TimedOut(r) == pc[r] = "done" /\ resp[r].kind = "504"

\* a job for render_id is in avatar:jobs
Enqueued(id) == \E i \in 1..Len(queue) : queue[i].render_id = id

\* C1: no lost wake-up.  A sync submission that missed the cache and leaves
\* render_sync after the worker has finished store_result for its render_id
\* (record written, token pushed) returns that record; it never leaves with
\* the timeout failure once the token was pushed.
C1_NoLostWakeup ==
  [][\A r \in Reqs :
       (/\ mode[r] = "sync"
        /\ pc[r] # "done"
        /\ pc'[r] = "done"
        /\ rid[r] # NoId
        /\ pushCount[rid[r]] > 0)
       => /\ resp'[r].kind = "render"
          /\ resp'[r].body = [record[rid[r]] EXCEPT !.cached = FALSE]
          /\ resp'[r].body.status \in Terminal]_vars

\* a blocked caller was woken by the token and finds the record
C1_Witness ==
  \E r \in Reqs : pc[r] = "s_get2" /\ record[rid[r]].status \in Terminal

\* C2: with the workers running, every enqueued render job eventually has a
\* ResultRecord whose status is completed or failed.
C2_EveryJobTerminal ==
  \A id \in RenderIds : Enqueued(id) ~> (record[id].status \in Terminal)

\* an async job whose record went from pending to a terminal status
C2_Witness ==
  \E r \in Reqs :
    /\ mode[r] = "async"
    /\ resp[r].body.status = "pending"
    /\ termWrites[rid[r]].worker > 0
    /\ record[rid[r]].status \in Terminal

\* C3: the admission counter stays within 0..MAX_CONCURRENT_REQUESTS.
C3_CounterBounded == 0 <= active /\ active <= MAX_CONCURRENT_REQUESTS

\* the ceiling is reached again after a slot was released
C3_Witness ==
  /\ active = MAX_CONCURRENT_REQUESTS
  /\ \E r \in Reqs :
       mode[r] = "sync" /\ pc[r] = "done" /\ resp[r].kind \notin {"429", "none"}

\* C4: a sync submission arriving while the counter is at the ceiling is
\* answered 429 at once: it gets no render_id, reads no cache entry, changes
\* neither the queue, nor a record, nor the cache, nor the counter.
C4_RejectedAtCeiling ==
  [][\A r \in Reqs :
       (/\ pc[r] = "idle"
        /\ mode'[r] = "sync"
        /\ active = MAX_CONCURRENT_REQUESTS)
       => /\ pc'[r] = "done"
          /\ resp'[r].kind = "429"
          /\ rid'[r] = NoId
          /\ UNCHANGED <<active, queue, record, cache, notify, lastWrite,
                         termWrites>>]_vars

\* a submission was refused while another one holds the slot
C4_Witness ==
  \E r, q \in Reqs : resp[r].kind = "429" /\ SyncHolding(q)

\* C5: every exit of an admitted sync submission (cache hit, result, timeout,
\* exception) takes exactly one off the counter; when no admitted submission
\* is left the counter is 0, and a sync submission arriving then is admitted.
C5_SlotReleased ==
  [][/\ \A r \in Reqs :
          (SyncHolding(r) /\ pc'[r] = "done") => active' = active - 1
     /\ (\A r \in Reqs : mode'[r] = "sync" => pc'[r] \in {"idle", "done"})
          => active' = 0
     /\ \A r \in Reqs :
          (/\ pc[r] = "idle"
           /\ mode'[r] = "sync"
           /\ \A q \in Reqs : ~SyncHolding(q))
          => pc'[r] = "s_cache"]_vars

\* after a timeout released the only slot, another submission was admitted
C5_Witness ==
  \E r, q \in Reqs : r # q /\ mode[r] = "sync" /\ TimedOut(r) /\ SyncHolding(q)

\* a poll of the render_id of r is answered with a terminal status
PollTerminal(r) ==
  rid[r] # NoId /\ get_render_status(rid[r]).body.status \in Terminal

\* store_result has finished for the job of r: record written once by the
\* worker, a completed result written to the cache, token pushed
StoreResultDone(r) ==
  /\ rid[r] # NoId
  /\ pushCount[rid[r]] > 0
  /\ termWrites[rid[r]].worker > 0
  /\ lastWrite[rid[r]][2] = "completed" => rid[r] \in cacheLog

\* C6: a timeout of the wait answers 504 and changes neither the queue, nor
\* a record, nor the cache, nor a worker; with the workers running a poll of
\* the render_id is answered with a terminal status then or later (when the
\* worker wrote the record before the timeout, at the timeout already),
\* store_result finishes for the job, and a completed result is written to
\* the cache.
C6_TimeoutLeavesJob ==
  /\ [][\A r \in Reqs :
          (pc[r] = "s_brpop" /\ pc'[r] = "done")
          => /\ resp'[r].kind = "504"
             /\ UNCHANGED <<queue, record, cache, notify, workerVars>>
             /\ termWrites[rid[r]].worker > 0 => PollTerminal(r)]_vars
  /\ \A r \in Reqs :
       (TimedOut(r) /\ termWrites[rid[r]].worker = 0) ~> PollTerminal(r)
  /\ \A r \in Reqs : TimedOut(r) ~> StoreResultDone(r)

\* after a timeout the job completed and its result is in the cache
C6_Witness ==
  \E r \in Reqs :
    /\ TimedOut(r)
    /\ get_render_status(rid[r]).body.status = "completed"
    /\ cache[CacheKeyOf(r)].render_id = rid[r]

\* C7: when the record a worker reads for the job it dequeued is completed
\* or failed, the worker returns to the queue without a pipeline step and
\* without writing a record, a cache entry or a token.
C7_TerminalJobSkipped ==
  [][\A w \in Workers :
       (/\ wpc[w] = "guard"
        /\ wpc'[w] # "guard"
        /\ record[wjob[w].render_id].status \in Terminal)
       => /\ wpc'[w] = "pop"
          /\ UNCHANGED <<record, cache, notify, lastWrite, termWrites,
                         cacheLog, pushCount>>]_vars

\* a worker dropped a job whose record was already terminal
C7_Witness == skipped # {}

\* C8: a sync submission that finds a cache entry for its inputs returns that
\* entry with cached=true, gets no render_id, enqueues nothing and writes no
\* record; a result that came from a worker is returned with cached=false.
C8_CacheHit ==
  [][/\ \A r \in Reqs :
          (/\ mode[r] = "sync"
           /\ pc[r] = "s_cache"
           /\ pc'[r] # "s_cache"
           /\ resp'[r].kind # "500"
           /\ cache[CacheKeyOf(r)] # None)
          => /\ pc'[r] = "done"
             /\ resp'[r].kind = "render"
             /\ resp'[r].body = [cache[CacheKeyOf(r)] EXCEPT !.cached = TRUE]
             /\ rid'[r] = NoId
             /\ UNCHANGED <<queue, record, lastWrite, termWrites>>
     /\ \A r \in Reqs :
          (mode'[r] = "sync" /\ resp'[r].kind = "render" /\ rid'[r] # NoId)
          => resp'[r].body.cached = FALSE]_vars

\* a worker result returned with cached=false, then the same inputs served
\* from the cache with cached=true
C8_Witness ==
  \E r, q \in Reqs :
    /\ r # q
    /\ CacheKeyOf(r) = CacheKeyOf(q)
    /\ resp[r].kind = "render" /\ resp[r].body.cached = FALSE
    /\ resp[q].kind = "render" /\ resp[q].body.cached = TRUE
    /\ resp[q].body.render_id = rid[r]

Rank(status) ==
  CASE status = "none" -> 0
    [] status = "pending" -> 1
    [] status = "processing" -> 2
    [] status \in Terminal -> 3

\* C9: the statuses written to the record of a render_id only advance:
\* pending, processing, then completed or failed; once completed or failed
\* was written, only that same status is written again.
C9_StatusAdvances ==
  [][\A id \in RenderIds :
       lastWrite'[id] # lastWrite[id]
       => /\ Rank(lastWrite[id][2]) <= Rank(lastWrite'[id][2])
          /\ lastWrite[id][2] \in Terminal
               => lastWrite'[id][2] = lastWrite[id][2]]_vars

\* a record created pending by the Front Door was made terminal by a worker
C9_Witness ==
  \E r \in Reqs :
    /\ mode[r] = "async"
    /\ resp[r].body.status = "pending"
    /\ lastWrite[rid[r]][1] = "worker"
    /\ lastWrite[rid[r]][2] \in Terminal

WithoutJob(q, id) == SelectSeq(q, LAMBDA j : j.render_id # id)

\* C11: an async submission that misses the cache writes a pending record
\* under a render_id that no record, job or other submission carries, then
\* adds exactly one job to the queue and answers pending with that render_id
\* while the job is still queued and the record still pending; no step of an
\* async submission changes the admission counter, and an async submission
\* arriving at the ceiling is taken on like any other.
C11_AsyncMiss ==
  [][\A r \in Reqs :
       /\ (pc[r] = "a_setpending" /\ pc'[r] # "a_setpending")
          => /\ lastWrite[rid[r]] = <<"none", "none">>
             /\ ~Enqueued(rid[r])
             /\ \A q \in Reqs \ {r} : rid[q] # rid[r]
             /\ record'[rid[r]].status = "pending"
             /\ record'[rid[r]].render_id = rid[r]
             /\ queue' = queue
             /\ pc'[r] = "a_enqueue"
       /\ (pc[r] = "a_enqueue" /\ pc'[r] # "a_enqueue")
          => /\ Len(queue') = Len(queue) + 1
             /\ WithoutJob(queue', rid[r]) = queue
             /\ pc'[r] = "done"
             /\ resp'[r].kind = "async"
             /\ resp'[r].body.status = "pending"
             /\ resp'[r].body.render_id = rid[r]
             /\ record'[rid[r]].status = "pending"
       /\ (mode'[r] = "async" /\ pc'[r] # pc[r])
          => /\ active' = active
             /\ resp'[r].kind # "429"
             /\ pc[r] = "idle" => pc'[r] = "a_cache"]_vars

\* an async submission that arrived while the ceiling was reached was
\* answered pending, and the slot is still held
C11_Witness ==
  \E r, q \in Reqs :
    /\ q < r
    /\ SyncHolding(q)
    /\ active = MAX_CONCURRENT_REQUESTS
    /\ mode[r] = "async"
    /\ pc[r] = "done"
    /\ resp[r].body.status = "pending"
    /\ Enqueued(rid[r])

\* the step by which an async submission that hit the cache answers
AsyncHitAnswers(r) == pc[r] = "a_sethit" /\ pc'[r] # "a_sethit"

\* what an async cache hit does apart from the choice of the render_id: the
\* cached payload is written to the record of the render_id, the answer is
\* completed with that render_id, no job is enqueued, and a poll of the
\* render_id yields the completed payload
AsyncHitEffect(r) ==
  /\ lastWrite'[rid[r]] = <<"front_door", "completed">>
  /\ pc'[r] = "done"
  /\ resp'[r].kind = "async"
  /\ resp'[r].body.status = "completed"
  /\ resp'[r].body.render_id = rid[r]
  /\ queue' = queue
  /\ get_render_status(rid[r])'.kind = "render"
  /\ get_render_status(rid[r])'.body = cache[CacheKeyOf(r)]
  /\ get_render_status(rid[r])'.body.status = "completed"

ReturnedId(r) ==
  /\ pc[r] = "done"
  /\ \/ resp[r].kind = "async"
     \/ resp[r].kind = "render" /\ resp[r].body.cached = FALSE

\* the submission missed the cache and generated its render_id
MissedCache(r) == rid[r] # NoId /\ cached_result[r] = None

JobEnqueued(r) ==
  /\ MissedCache(r)
  /\ \/ mode[r] = "sync" /\ pc[r] \in {"s_get", "s_brpop", "s_get2"}
     \/ mode[r] = "sync" /\ pc[r] = "done" /\ resp[r].kind # "500"
     \/ mode[r] = "async" /\ pc[r] = "done"

\* the job of render_id is queued, or a worker has it and has not yet
\* written its result
InFlight(id) ==
  \/ Enqueued(id)
  \/ \E w \in Workers :
       /\ wjob[w].render_id = id
       /\ wpc[w] \in {"guard", "upd_get", "upd_set", "pipeline"}

\* a poll of render_id finds a record: pending or processing while the job
\* is queued or running, completed or failed afterwards
PollFindsRecord(id) ==
  /\ get_render_status(id).kind = "render"
  /\ IF InFlight(id)
       THEN get_render_status(id).body.status \in {"pending", "processing"}
       ELSE get_render_status(id).body.status \in Terminal

\* "not found" is answered only for a render_id that never had a record or
\* whose record expired
NotFoundOnlyIfAbsent ==
  \A id \in RenderIds :
    get_render_status(id).kind = "404"
    => lastWrite[id] = <<"none", "none">> \/ id \in recExpired

\* C14 as stated: once the job of a submission (sync or async) is enqueued
\* and as long as its record has not expired, a poll of its render_id finds
\* a record, pending or processing while the job is queued or running and
\* terminal afterwards; "not found" is answered only for a render_id that
\* never had a record or whose record expired.
C14_PollFindsRecord ==
  /\ \A r \in Reqs :
       (JobEnqueued(r) /\ rid[r] \notin recExpired) => PollFindsRecord(rid[r])
  /\ NotFoundOnlyIfAbsent

\* C14 amended: that holds for a job enqueued by an async submission.  For a
\* job enqueued by a sync submission no record exists while the job is
\* queued or running (a poll answers "not found"), and the record written
\* by the worker is found, completed or failed, from then until it expires.
C14_AsyncPollFindsRecord ==
  /\ \A r \in Reqs :
       (JobEnqueued(r) /\ rid[r] \notin recExpired /\ mode[r] = "async")
       => PollFindsRecord(rid[r])
  /\ \A r \in Reqs :
       (JobEnqueued(r) /\ rid[r] \notin recExpired /\ mode[r] = "sync")
       => IF InFlight(rid[r])
            THEN get_render_status(rid[r]).kind = "404"
            ELSE /\ get_render_status(rid[r]).kind = "render"
                 /\ get_render_status(rid[r]).body.status \in Terminal
  /\ NotFoundOnlyIfAbsent

\* a poll finds the record of an async job in processing while a worker
\* runs its pipeline
C14_Witness ==
  \E r \in Reqs, w \in Workers :
    /\ mode[r] = "async"
    /\ JobEnqueued(r)
    /\ wpc[w] = "pipeline"
    /\ wjob[w].render_id = rid[r]
    /\ get_render_status(rid[r]).body.status = "processing"

\* the step by which worker w writes a cache entry
CacheWriteStep(w) == wpc[w] = "cache" /\ wpc'[w] # "cache"

\* C15 as stated: a write to a cache key that has an entry stores the
\* payload the entry already has.
C15_SamePayload ==
  [][\A w \in Workers :
       (CacheWriteStep(w) /\ cache[wjob[w].cache_key] # None)
       => cache'[wjob[w].cache_key] = cache[wjob[w].cache_key]]_vars

\* C15 amended: every write to the cache entry of a fingerprint stores the
\* completed payload of a job whose inputs have that fingerprint; the
\* payload carries the render_id and audio_url of the job that writes it,
\* so a write to an existing entry replaces it by the payload of the later
\* job.
C15_PayloadOfWritingJob ==
  [][\A w \in Workers :
       CacheWriteStep(w)
       => LET k == wjob[w].cache_key IN
            /\ k = generate_cache_key(wjob[w].input.voice_id,
                                      wjob[w].input.speed, wjob[w].input.text)
            /\ cache'[k].status = "completed"
            /\ cache'[k].render_id = wjob[w].render_id
            /\ cache'[k].audio_url = wjob[w].render_id]_vars

\* two submissions with identical inputs both missed the cache, both jobs
\* completed, and the entry holds the payload of the one written last
C15_Witness ==
  \E r, q \in Reqs :
    /\ r # q
    /\ input[r] = input[q]
    /\ MissedCache(r) /\ MissedCache(q)
    /\ rid[r] \in cacheLog /\ rid[q] \in cacheLog
    /\ cache[CacheKeyOf(q)].render_id = rid[q]

\* the step by which a handler leaves its cache lookup
LookupStep(r) == pc[r] \in {"s_cache", "a_cache"} /\ pc'[r] # pc[r]

\* C16: a cache entry changes only when its TTL runs out or when a worker
\* writes, under the cache key of its job, the completed result of that
\* job; the step that stores a failed result leaves the cache as it is and
\* the worker goes on without a cache write, no entry ever holds a failed
\* result, and a submission that finds no entry for its inputs generates a
\* render_id for a new job.
C16_CacheWrittenOnCompletion ==
  /\ [][/\ \A k \in CacheKeys :
             cache'[k] # cache[k]
             => \/ cache'[k] = None /\ expired' = expired + 1
                \/ \E w \in Workers :
                     /\ CacheWriteStep(w)
                     /\ k = wjob[w].cache_key
                     /\ wdata[w].status = "completed"
                     /\ wdata[w].render_id = wjob[w].render_id
                     /\ cache'[k] = wdata[w]
        /\ \A w \in Workers :
             (wpc[w] = "pipeline" /\ wdata'[w].status = "failed")
             => cache' = cache /\ wpc'[w] = "notify"
        /\ \A r \in Reqs :
             (LookupStep(r) /\ resp'[r].kind # "500"
                /\ cache[CacheKeyOf(r)] = None)
             => /\ pc'[r] \in {"s_enqueue", "a_setpending"}
                /\ rid'[r] # NoId]_vars
  /\ [](\A k \in CacheKeys : cache[k] # None => cache[k].status = "completed")
  /\ [](\A id \in RenderIds :
          lastWrite[id] = <<"worker", "failed">> => id \notin cacheLog)

\* a job failed, no cache entry was made, and a later submission with the
\* same inputs was enqueued as a new job
C16_Witness ==
  \E r, q \in Reqs :
    /\ r # q
    /\ input[r] = input[q]
    /\ mode[r] = "sync" /\ mode[q] = "sync"
    /\ resp[r].kind = "render" /\ resp[r].body.status = "failed"
    /\ JobEnqueued(q)
    /\ rid[q] # rid[r]
    /\ cacheLog = {}

\* a was pushed before b according to the push history log
PushedBefore(log, a, b) ==
  \E i, j \in 1..Len(log) : i < j /\ log[i] = a /\ log[j] = b

\* when a worker dequeues a render job, no job pushed before it is left in
\* avatar:jobs
RenderQueueFifo ==
  [][\A w \in Workers :
       (wpc[w] = "pop" /\ wpc'[w] = "guard")
       => \A i \in 1..Len(queue') :
            ~PushedBefore(pushLog, queue'[i].render_id, wjob'[w].render_id)]_vars

\* two render jobs were queued together and the older one was dequeued
RenderQueueFifoWitness ==
  \E w \in Workers :
    /\ wpc[w] = "guard"
    /\ Len(queue) > 0
    /\ PushedBefore(pushLog, wjob[w].render_id, queue[1].render_id)

\* C17: in each of the two queues the jobs are dequeued in the order of
\* their push: when a worker dequeues a job, no job pushed before it on the
\* same queue is still in that queue.
C17_FifoPerQueue ==
  [][\A w \in Workers :
       /\ (wpc[w] = "pop" /\ wpc'[w] = "guard")
          => \A i \in 1..Len(queue') :
               ~PushedBefore(pushLog, queue'[i].render_id,
                             wjob'[w].render_id)
       /\ (wpc[w] = "pop" /\ wpc'[w] = "c_stage")
          => \A i \in 1..Len(cqueue') :
               ~PushedBefore(cpushLog, cqueue'[i].job_id, cjob'[w])]_vars

NonDecreasing(seq) == \A i \in 1..(Len(seq) - 1) : seq[i] <= seq[i + 1]

\* the worker has finished with the capture job j
JobEnded(j) == ranStage[j] > 0 /\ \A w \in Workers : cjob[w] # j

\* the except clause has written its update for the capture job j
FailureWritten(j) ==
  /\ failedStage[j] # 0
  /\ \A w \in Workers : ~(cjob[w] = j /\ wpc[w] = "c_fail")

\* C18 as stated: for a capture job that ended, completed or failed, the
\* progress values written to its status, from the 0 at submission on, are
\* non-decreasing.
C18_ProgressNonDecreasing ==
  \A j \in JobIds :
    JobEnded(j) => progLog[j][1] = 0 /\ NonDecreasing(progLog[j])

\* C18 amended: the progress values written while a capture job is queued,
\* processing and completed are non-decreasing, from 0 to at most 100; the
\* write that finalizes a failure sets progress back to 0, and it is the
\* last progress written.
C18_ProgressUntilFailure ==
  \A j \in JobIds :
    LET p == progLog[j] IN
      /\ p # <<>> => p[1] = 0
      /\ \A i \in 1..Len(p) : p[i] \in 0..100
      /\ IF FailureWritten(j)
           THEN /\ p[Len(p)] = 0
                /\ NonDecreasing(SubSeq(p, 1, Len(p) - 1))
                /\ p[Len(p) - 1] = StageProgress[failedStage[j]]
           ELSE NonDecreasing(p)
      /\ (JobEnded(j) /\ failedStage[j] = 0) => p[Len(p)] = 100

\* a capture job failed in its third stage: progress 0, 10, 20, 30, then 0
C18_Witness ==
  \E j \in JobIds :
    /\ JobEnded(j)
    /\ failedStage[j] = 3
    /\ progLog[j] = <<0, 10, 20, 30, 0>>
    /\ get_job_status(j).body.status = "failed"
    /\ get_job_status(j).body.progress = 0

IsPrefix(s, t) == Len(s) <= Len(t) /\ SubSeq(t, 1, Len(s)) = s

\* a step that writes the status of the capture job j
StatusWriteStep(j) == cstatus'[j] # cstatus[j] /\ cstatus'[j] # NoStatus

\* C19 as stated: every write to the status of a job_id keeps all the log
\* lines written before as a prefix of the logs list, so its length never
\* decreases.
C19_LogsAppendOnly ==
  [][\A j \in JobIds :
       StatusWriteStep(j)
       => /\ IsPrefix(lastLogs[j], cstatus'[j].logs)
          /\ Len(lastLogs[j]) <= Len(cstatus'[j].logs)]_vars

\* C19 amended: every write to the status of a job_id keeps the log lines
\* of the status it reads as a prefix and adds at most one line; as long as
\* the status key has not expired these are all the lines written before.
\* After the key expired (3600 s without a write) the next write starts
\* from an empty list, and only then is the list shorter than before.
C19_LogsAppendOnlyUnlessExpired ==
  [][\A j \in JobIds :
       StatusWriteStep(j)
       => /\ IsPrefix(cstatus[j].logs, cstatus'[j].logs)
          /\ Len(cstatus'[j].logs) <= Len(cstatus[j].logs) + 1
          /\ cstatus[j] # NoStatus => cstatus[j].logs = lastLogs[j]
          /\ Len(cstatus'[j].logs) < Len(lastLogs[j])
               => cstatus[j] = NoStatus /\ expired > 0]_vars

\* a capture job completed with its twelve log lines, kept by the final
\* merge of the worker
C19_Witness ==
  \E j \in JobIds :
    /\ JobEnded(j)
    /\ get_job_status(j).body.outputs
    /\ get_job_status(j).body.logs = <<"queued">> \o StageLog \o <<"done">>

\* C20: once a stage of the capture pipeline has failed for a job, no
\* further stage is started for it and every later write to its status
\* carries status failed (none carries processing or completed); the final
\* write of the worker leaves status failed with an error message, and the
\* status of a failed job that is still in the store stays so.
C20_FailureAborts ==
  /\ [][\A j \in JobIds :
          failedStage[j] # 0
          => /\ ranStage'[j] = ranStage[j]
             /\ failedStage'[j] = failedStage[j]
             /\ StatusWriteStep(j) => cstatus'[j].status = "failed"
             /\ (JobEnded(j)' /\ ~JobEnded(j))
                  => /\ cstatus'[j].status = "failed"
                     /\ cstatus'[j].error \notin {"none", ""}]_vars
  /\ [](\A j \in JobIds :
          (failedStage[j] # 0 /\ JobEnded(j)
             /\ get_job_status(j).kind = "status")
          => /\ get_job_status(j).body.status = "failed"
             /\ get_job_status(j).body.error \notin {"none", ""}
             /\ ~get_job_status(j).body.outputs)

\* a capture job failed in its second stage: no third stage, status failed
\* with the error
C20_Witness ==
  \E j \in JobIds :
    /\ JobEnded(j)
    /\ failedStage[j] = 2
    /\ ranStage[j] = 2
    /\ get_job_status(j).body.status = "failed"
    /\ get_job_status(j).body.error = StageLog[2]
    /\ get_job_status(j).body.logs =
         <<"queued", StageLog[1], StageLog[2], "error">>

\* ------------------------------------------------------------------------
\* Uploads
\* ------------------------------------------------------------------------
\* upload u reached the size check with a size outside [min_size, max_size]
SizeRejected(u) ==
  /\ upc[u] = "done"
  /\ uinput[u].avatar_ok
  /\ uresp[u].code # "500"
  /\ \/ uinput[u].file_size < min_size
     \/ uinput[u].file_size > max_size

\* process request c left a status record or a job behind
LeftTrace(c) ==
  \/ cstatus[c] # NoStatus
  \/ progLog[c] # <<>>
  \/ \E k \in 1..Len(cpushLog) : cpushLog[k] = c
  \/ \E k \in 1..Len(cqueue) : cqueue[k].job_id = c

\* C21: an upload below the minimum or above the maximum size is answered
\* with a size error and its file is gone; no process request naming its
\* capture_id writes a status or enqueues a job, and each is answered 404.
C21_RejectedUploadLeavesNothing ==
  \A u \in Uploads :
    SizeRejected(u) =>
      /\ uresp[u].code \in {"400_too_small", "400_too_large"}
      /\ uresp[u].capture_id = "none"
      /\ UploadId(u) \notin files
      /\ \A c \in CapReqs :
           cinput[c] = UploadId(u) =>
             /\ cpc[c] = "done"
             /\ cresp[c] = "404"
             /\ ~LeftTrace(c)

\* one upload too small, one too large, each named by a later request
C21_Witness ==
  \E u1, u2 \in Uploads, c1, c2 \in CapReqs :
    /\ SizeRejected(u1) /\ uresp[u1].code = "400_too_small"
    /\ SizeRejected(u2) /\ uresp[u2].code = "400_too_large"
    /\ cinput[c1] = UploadId(u1) /\ cresp[c1] = "404"
    /\ cinput[c2] = UploadId(u2) /\ cresp[c2] = "404"

\* ------------------------------------------------------------------------
\* Process requests
\* ------------------------------------------------------------------------
\* the number of times job_id j was pushed
PushesOf(j) == Cardinality({k \in 1..Len(cpushLog) : cpushLog[k] = j})

\* C22: a process request whose upload is on disk writes the initial status
\* (queued, progress 0) before it pushes its one job, so every job a worker
\* dequeues had its status created; a request whose file is absent writes
\* no status and pushes no job.
C22_StatusBeforeJob ==
  /\ [](\A c \in CapReqs :
         /\ PushesOf(c) <= 1
         /\ cresp[c] = "queued" => PushesOf(c) = 1
         /\ PushesOf(c) = 1 => progLog[c] # <<>> /\ progLog[c][1] = 0
         /\ cresp[c] = "404" => ~LeftTrace(c))
  /\ [][/\ \A c \in CapReqs :
            /\ (progLog[c] = <<>> /\ progLog'[c] # <<>>) =>
                 /\ cinput[c] \in files
                 /\ cstatus'[c] = InitialStatus(c)
                 /\ cstatus'[c].status = "queued"
                 /\ cstatus'[c].progress = 0
                 /\ PushesOf(c) = 0
                 /\ cqueue' = cqueue
            /\ (cpc[c] = "idle" /\ cpc'[c] # "idle"
                  /\ cinput'[c] \notin files) =>
                 /\ cpc'[c] = "done"
                 /\ cresp'[c] = "404"
                 /\ cstatus' = cstatus
                 /\ cqueue' = cqueue
       /\ \A w \in Workers :
            (wpc[w] = "pop" /\ wpc'[w] = "c_stage") =>
              /\ progLog[cjob'[w]] # <<>>
              /\ PushesOf(cjob'[w]) = 1]_vars

\* a worker holds a capture job, and another request was answered 404
C22_Witness ==
  \E w \in Workers, c \in CapReqs :
    /\ wpc[w] = "c_stage"
    /\ progLog[cjob[w]] # <<>>
    /\ cinput[cjob[w]] \in files
    /\ cresp[c] = "404"
    /\ cinput[c] \notin files

\* ------------------------------------------------------------------------
\* Worker loop
\* ------------------------------------------------------------------------
\* the positions of a worker inside "while running"
InLoop ==
  {"pop", "guard", "upd_get", "upd_set", "pipeline", "cache", "notify"}

\* the job of render_id id was pushed and is in no queue and in no hand
Gone(id) ==
  /\ \E k \in 1..Len(pushLog) : pushLog[k] = id
  /\ ~Enqueued(id)
  /\ \A w \in Workers : wjob[w].render_id # id

\* the job of render_id id was dropped by an except clause of the loop
Dropped(id) ==
  /\ Gone(id)
  /\ termWrites[id].worker = 0
  /\ id \notin skipped

\* C23: a worker is out of its loop only after it received a shutdown
\* signal; a pop timeout, a malformed entry or an exception raised while a
\* job is handled puts a worker whose flag is still set back into brpop.
C23_LoopLeftOnlyOnSignal ==
  /\ [](\A w \in Workers :
         /\ wpc[w] \in InLoop \cup {"stopped"}
         /\ wpc[w] = "stopped" => ~running[w])
  /\ [][\A w \in Workers :
         /\ (wpc[w] # "stopped" /\ wpc'[w] = "stopped") => ~running[w]
         /\ (running[w] /\ wpc[w] = "pop" /\ Len(queue') < Len(queue)
               /\ queue[Len(queue)] = Malformed /\ wpc'[w] # "guard")
              => wpc'[w] = "pop"
         /\ (running[w] /\ wjob[w] # NoJob /\ wjob'[w] = NoJob)
              => wpc'[w] = "pop"]_vars

\* a malformed entry was consumed, a job was dropped by an exception, one
\* worker stopped after a signal, and a worker holds the next job
C23_Witness ==
  /\ injected = 1
  /\ \A k \in 1..Len(queue) : queue[k] # Malformed
  /\ \E id \in RenderIds : Dropped(id)
  /\ \E w \in Workers : wpc[w] = "stopped"
  /\ \E w \in Workers : running[w] /\ wpc[w] = "pipeline"

\* ------------------------------------------------------------------------
\* Failed renders
\* ------------------------------------------------------------------------
\* a worker stored a failed result for id and has the token still to push
FailedStored(id) ==
  \E w \in Workers :
    /\ wpc[w] = "notify"
    /\ wdata[w].status = "failed"
    /\ wdata[w].render_id = id

\* C24: when the pipeline fails for a dequeued job the worker writes the
\* record of that job with status failed and an error message, writes no
\* cache entry, and goes on to push the notify token; a sync caller that
\* leaves after the token was pushed answers the failed record, not 504.
C24_FailureStoredAndNotified ==
  /\ [][\A w \in Workers :
         (wpc[w] = "pipeline" /\ wpc'[w] # "pipeline"
           /\ wdata'[w].status = "failed") =>
           LET id == wjob[w].render_id IN
             /\ record'[id].render_id = id
             /\ record'[id].status = "failed"
             /\ record'[id].error \notin {"none", ""}
             /\ cache' = cache
             /\ wpc'[w] = "notify"]_vars
  /\ [][\A id \in RenderIds :
         (FailedStored(id) /\ ~FailedStored(id)') =>
           /\ notify'[id] = notify[id] + 1
           /\ pushCount'[id] = pushCount[id] + 1]_vars
  /\ \A id \in RenderIds : FailedStored(id) ~> (pushCount[id] > 0)
  /\ [][\A r \in Reqs :
         (/\ mode[r] = "sync"
          /\ pc[r] \in {"s_brpop", "s_get2"}
          /\ pc'[r] = "done"
          /\ pushCount[rid[r]] > 0
          /\ record[rid[r]].status = "failed")
         => /\ resp'[r].kind = "render"
            /\ resp'[r].body.status = "failed"
            /\ resp'[r].body.error = record[rid[r]].error]_vars

\* a sync caller that was blocked answers a failed result
C24_Witness ==
  \E r \in Reqs :
    /\ mode[r] = "sync"
    /\ pc[r] = "done"
    /\ resp[r].kind = "render"
    /\ resp[r].body.status = "failed"
    /\ resp[r].body.error = "pipeline error"
    /\ pushCount[rid[r]] > 0
    /\ notify[rid[r]] = 0

\* ------------------------------------------------------------------------
\* Writers of the store
\* ------------------------------------------------------------------------
\* handler r of the Front Door makes its set_result call in this step
FrontDoorWrite(r) ==
  /\ pc[r] \in {"a_sethit", "a_setpending"}
  /\ pc'[r] # pc[r]

\* handler c of the Capture Intake makes its set_json call in this step
IntakeWrite(c) == cpc[c] = "c_set" /\ cpc'[c] = "c_push"

\* a worker makes a step on the record of render_id id
WorkerRecordStep(id) ==
  \E w \in Workers :
    /\ wpc[w] \in {"upd_set", "pipeline"}
    /\ wpc'[w] # wpc[w]
    /\ wjob[w].render_id = id

\* a worker makes the setex call on cache key k
WorkerCacheStep(k) ==
  \E w \in Workers :
    wpc[w] = "cache" /\ wpc'[w] # "cache" /\ wjob[w].cache_key = k

\* a worker makes a step on the status of job_id j
WorkerStatusStep(j) ==
  \E w \in Workers :
    /\ wpc[w] \in {"c_stage", "c_fail", "c_merge"}
    /\ cjob[w] = j
    /\ wpc'[w] # wpc[w] \/ wstage'[w] # wstage[w]

Lost(w) ==
  /\ wpc[w] = "crashed"
  /\ wjob[w] # NoJob
  /\ wdata[w].status \notin Terminal

\* C26: a dequeue takes the job out of the queue and nothing puts a job
\* back; the job of a worker that died between dequeue and store_result is
\* in no queue and in no other worker's hands, and its record has no
\* terminal status, no cache entry and no notify token.
C26_LostJobStaysLost ==
  /\ [](\A w \in Workers :
         Lost(w) =>
           LET id == wjob[w].render_id IN
             /\ ~Enqueued(id)
             /\ \A v \in Workers \ {w} : wjob[v].render_id # id
             /\ record[id].status \notin Terminal
             /\ termWrites[id].worker = 0
             /\ termWrites[id].front_door = 0
             /\ pushCount[id] = 0
             /\ id \notin cacheLog)
  /\ [][/\ \A w \in Workers :
            (wpc[w] = "pop" /\ wpc'[w] = "guard") =>
              /\ wjob'[w] = queue[Len(queue)]
              /\ queue' = SubSeq(queue, 1, Len(queue) - 1)
              /\ \A k \in 1..Len(queue') :
                   queue'[k].render_id # wjob'[w].render_id
       /\ \A id \in RenderIds :
            (~Enqueued(id) /\ Enqueued(id)') =>
              \A k \in 1..Len(pushLog) : pushLog[k] # id]_vars

\* a worker died with a job whose record stays at processing while the
\* other worker finished another job
C26_Witness ==
  \E w \in Workers, id \in RenderIds :
    /\ Lost(w)
    /\ record[wjob[w].render_id].status = "processing"
    /\ id # wjob[w].render_id
    /\ pushCount[id] > 0
    /\ queue = <<>>

\* ------------------------------------------------------------------------
\* Concurrent workers
\* ------------------------------------------------------------------------
\* worker w starts the pipeline in this step
PipelineStart(w) == wpc[w] # "pipeline" /\ wpc'[w] = "pipeline"

\* C27: each render_id is pushed once; the worker that dequeues a job takes
\* it out of the queue, and no other worker holds or ever held it; the
\* pipeline starts for a render_id only while no result of a worker exists
\* for it and no other worker holds a job of that render_id.
C27_OneWorkerPerJob ==
  /\ [](\A i, k \in 1..Len(pushLog) : pushLog[i] = pushLog[k] => i = k)
  /\ [][\A w \in Workers :
         /\ (wpc[w] = "pop" /\ wpc'[w] = "guard") =>
              LET id == wjob'[w].render_id IN
                /\ Enqueued(id)
                /\ \A k \in 1..Len(queue') : queue'[k].render_id # id
                /\ \A v \in Workers \ {w} :
                     wjob[v].render_id # id /\ wpc'[v] = wpc[v]
                /\ termWrites[id].worker = 0
                /\ id \notin skipped
         /\ PipelineStart(w) =>
              LET id == wjob[w].render_id IN
                /\ termWrites[id].worker = 0
                /\ \A v \in Workers \ {w} : wjob[v].render_id # id]_vars

\* two workers run the pipeline at the same time, on different jobs
C27_Witness ==
  \E w, v \in Workers :
    /\ w # v
    /\ wpc[w] = "pipeline"
    /\ wpc[v] = "pipeline"
    /\ wjob[w].render_id # wjob[v].render_id

\* ------------------------------------------------------------------------
\* Unsupported voices
\* ------------------------------------------------------------------------
\* the voice_id of a render_id
VoiceOf(id) == id[1]

\* C28 as stated: a render job whose voice_id has no model ends failed
\* with an error; its record is never completed and no cache entry is
\* written for it.
C28_UnsupportedVoiceFails ==
  \A id \in RenderIds :
    VoiceOf(id) \notin InstalledVoices =>
      /\ record[id].status # "completed"
      /\ id \notin cacheLog
      /\ termWrites[id].worker > 0 => lastWrite[id][2] = "failed"

\* ------------------------------------------------------------------------
\* Fingerprints
\* ------------------------------------------------------------------------
\* the jobs made by submission r that are in the queue or in a worker's hand
JobsOf(r) ==
  IF rid[r] = NoId THEN {}
  ELSE {queue[k] : k \in {n \in 1..Len(queue) : queue[n].render_id = rid[r]}}
         \cup {wjob[w] : w \in {v \in Workers : wjob[v].render_id = rid[r]}}

\* submissions r and q agree in voice_id, speed to two decimals, and text
SameTriple(r, q) ==
  /\ input[r] # NoInput
  /\ input[q] # NoInput
  /\ input[r].voice_id = input[q].voice_id
  /\ (input[r].speed + 5) \div 10 = (input[q].speed + 5) \div 10
  /\ input[r].text = input[q].text

\* C29: the jobs of two submissions that agree in (voice_id, speed to two
\* decimals, text) carry the same cache_key, whatever their paths, times and
\* render_ids and whatever the store holds; a submission that hits the
\* cache is served the result of a job with its own triple.
C29_FingerprintOfInputsOnly ==
  /\ \A r, q \in Reqs :
       SameTriple(r, q) =>
         \A j \in JobsOf(r), k \in JobsOf(q) : j.cache_key = k.cache_key
  /\ \A r \in Reqs :
       cached_result[r] # None =>
         LET id == cached_result[r].render_id IN
           /\ id[1] = input[r].voice_id
           /\ id[2] = (input[r].speed + 5) \div 10
           /\ id[3] = input[r].text

\* a sync and an async submission with speeds 1.000 and 1.004, made at
\* different times under different render_ids, have jobs with one cache_key
C29_Witness ==
  \E r, q \in Reqs :
    /\ mode[r] = "sync"
    /\ mode[q] = "async"
    /\ SameTriple(r, q)
    /\ input[r].speed # input[q].speed
    /\ rid[r] # rid[q]
    /\ JobsOf(r) # {}
    /\ JobsOf(q) # {}
    /\ \A j \in JobsOf(r), k \in JobsOf(q) : j.cache_key = k.cache_key

\* ------------------------------------------------------------------------
\* Notify tokens
\* ------------------------------------------------------------------------
\* a worker took the job of render_id id through store_result
Finished(id) ==
  /\ termWrites[id].worker > 0
  /\ \A w \in Workers : wjob[w].render_id # id

\* C30: one token is pushed for a render_id when a worker finishes its job,
\* after the terminal record was written, and no other; while a token is
\* present and the record has not run out of its TTL, the record exists
\* with a terminal status.
C30_OneTokenAfterRecord ==
  /\ [](\A id \in RenderIds :
         /\ pushCount[id] <= 1
         /\ notify[id] <= pushCount[id]
         /\ Finished(id) => pushCount[id] = 1
         /\ pushCount[id] = 1 => termWrites[id].worker = 1
         /\ (notify[id] > 0 /\ id \notin recExpired) =>
              /\ record[id] # None
              /\ record[id].render_id = id
              /\ record[id].status \in Terminal)
  /\ [][\A id \in RenderIds :
         pushCount'[id] # pushCount[id] =>
           /\ pushCount'[id] = pushCount[id] + 1
           /\ notify'[id] = notify[id] + 1
           /\ termWrites[id].worker = 1
           /\ lastWrite[id][2] \in Terminal
           /\ record' = record]_vars

\* a token lies in the notify list of a finished job, beside its record
C30_Witness ==
  \E id \in RenderIds :
    /\ Finished(id)
    /\ notify[id] = 1
    /\ pushCount[id] = 1
    /\ record[id].status = "failed"
    /\ id \notin recExpired

\* ------------------------------------------------------------------------
\* Status processing
\* ------------------------------------------------------------------------
\* the job of render_id id was enqueued by a submission of the given mode
SubmittedBy(id, m) ==
  \E r \in Reqs : rid[r] = id /\ mode[r] = m /\ MissedCache(r)

\* C31 as stated: while a worker is in the pipeline for a job, sync or
\* async, the record of the job shows status processing.
C31_ProcessingShown ==
  \A w \in Workers :
    wpc[w] = "pipeline" => record[wjob[w].render_id].status = "processing"

\* C31 amended: while a worker is in the pipeline for a job submitted
\* through the async path, the record of the job shows processing unless it
\* ran out of its TTL; for a job submitted through the sync path there is no
\* record until the terminal result is written.
C31_ProcessingShownAsyncOnly ==
  \A w \in Workers :
    wpc[w] = "pipeline" =>
      LET id == wjob[w].render_id IN
        /\ SubmittedBy(id, "sync") \/ SubmittedBy(id, "async")
        /\ (SubmittedBy(id, "async") /\ id \notin recExpired)
             => record[id].status = "processing"
        /\ record[id] # None => record[id].status = "processing"
        /\ SubmittedBy(id, "sync") => record[id] = None

\* one worker in the pipeline for a sync job without a record, the other
\* for an async job whose record shows processing
C31_Witness ==
  \E w, v \in Workers :
    /\ wpc[w] = "pipeline"
    /\ wpc[v] = "pipeline"
    /\ SubmittedBy(wjob[w].render_id, "sync")
    /\ record[wjob[w].render_id] = None
    /\ SubmittedBy(wjob[v].render_id, "async")
    /\ record[wjob[v].render_id].status = "processing"

\* ------------------------------------------------------------------------
\* C32: dispatch by the discriminator field
\* ------------------------------------------------------------------------
\* the positions of the capture pipeline and of the render branch
CapturePositions == {"c_stage", "c_fail", "c_merge"}
RenderPositions == {"guard", "upd_get", "upd_set", "pipeline", "cache", "notify"}

\* the job a brpop takes in this step
Dequeued ==
  IF queue' # queue THEN queue[Len(queue)] ELSE cqueue[Len(cqueue)]

\* worker w leaves brpop with a job
Takes(w) == wpc[w] = "pop" /\ wpc'[w] \notin {"pop", "stopped"}

\* worker w makes a step of the capture pipeline (of the render branch)
CaptureSideStep(w) ==
  /\ wpc[w] \in CapturePositions
  /\ wpc'[w] # wpc[w] \/ wstage'[w] # wstage[w]
RenderSideStep(w) == wpc[w] \in RenderPositions /\ wpc'[w] # wpc[w]

\* C32: a worker that takes a job from either queue enters the capture
\* pipeline with the job's job_id when the job's type is capture_processing,
\* and the render branch with the job otherwise (another type or no type);
\* a step of the capture pipeline changes no ResultRecord, CacheEntry or
\* notify list, a step of the render branch changes no CaptureStatus, and
\* every change of a CaptureStatus (of a ResultRecord, CacheEntry or notify
\* list) is made by a worker in the capture pipeline (in the render branch).
C32_DispatchByType ==
  [][\A w \in Workers :
       /\ Takes(w) =>
            IF Dequeued.type = "capture_processing"
              THEN wpc'[w] = "c_stage" /\ cjob'[w] = Dequeued.job_id
              ELSE wpc'[w] = "guard" /\ wjob'[w] = Dequeued
       /\ CaptureSideStep(w) => UNCHANGED <<record, cache, notify>>
       /\ RenderSideStep(w) => UNCHANGED cstatus
       /\ cstatus' # cstatus => \E v \in Workers : CaptureSideStep(v)
       /\ <<record, cache, notify>>' # <<record, cache, notify>>
            => \E v \in Workers : RenderSideStep(v)]_vars

\* a capture job taken from the render queue has completed and a job with
\* another type taken from the capture queue has its record, cache entry
\* and notify token written, while still in the workers' hands
C32_Witness ==
  \E w, v \in Workers :
    /\ wpc[w] = "c_merge"
    /\ CaptureJobData(cjob[w]) \in misplaced
    /\ cstatus[cjob[w]].status = "completed"
    /\ wpc[v] = "notify"
    /\ wjob[v] \in misplaced
    /\ wjob[v].type = "other"
    /\ record[wjob[v].render_id].status = "completed"
    /\ cache[wjob[v].cache_key] # None
    /\ \A id \in RenderIds : id # wjob[v].render_id => record[id] = None

\* ------------------------------------------------------------------------
\* C33: clamp_bbox and the frame
\* ------------------------------------------------------------------------
\* clamp_bbox has returned
Returned == clamped = clamp_bbox(bbox, frame.max_width, frame.max_height)

\* C33: the box clamp_bbox returns lies inside the frame for every input box
\* and frame size: x >= 0, y >= 0, w >= 0, h >= 0, x + w <= frame width and
\* y + h <= frame height.
C33_ClampedInsideFrame ==
  (frame # NoFrame /\ Returned) =>
    /\ clamped.x >= 0
    /\ clamped.y >= 0
    /\ clamped.w >= 0
    /\ clamped.h >= 0
    /\ clamped.x + clamped.w <= frame.max_width
    /\ clamped.y + clamped.h <= frame.max_height

\* ------------------------------------------------------------------------
\* C34: terminal capture status and its output fields
\* ------------------------------------------------------------------------
\* C34: a CaptureStatus with status completed carries manifest_url and
\* zip_url, and one with status failed carries the error field, in every
\* state a poll can observe.
C34_TerminalStatusHasOutputs ==
  \A j \in JobIds :
    /\ cstatus[j].status = "completed" => cstatus[j].outputs
    /\ cstatus[j].status = "failed" => cstatus[j].error # "none"

\* ------------------------------------------------------------------------
\* C35: record, cache entry, notify token, in this order
\* ------------------------------------------------------------------------
\* the fingerprint of the request of r
KeyOf(r) == generate_cache_key(input[r].voice_id, input[r].speed, input[r].text)

\* sync request r was woken by a token and reads a completed record
WokenCompleted(r) ==
  /\ pc[r] = "s_get2"
  /\ record[rid[r]].status = "completed"

\* C35: a worker writes the cache entry of a job after the job's completed
\* record and pushes the notify token after both; a sync caller woken by the
\* token that reads a completed record finds the CacheEntry of its
\* fingerprint in the store, at the wake-up and when it returns, so that the
\* cache lookup of an identical submission made then is a hit.
C35_RecordCacheNotify ==
  /\ [](\A r \in Reqs : WokenCompleted(r) => cache[KeyOf(r)] # None)
  /\ [][/\ \A w \in Workers :
             (wpc[w] = "cache" /\ wpc'[w] # "cache") =>
               /\ record[wjob[w].render_id].status = "completed"
               /\ notify'[wjob[w].render_id] = notify[wjob[w].render_id]
               /\ wpc'[w] = "notify"
        /\ \A w \in Workers :
             (wpc[w] = "notify" /\ wpc'[w] # "notify") =>
               /\ notify'[wjob[w].render_id] = notify[wjob[w].render_id] + 1
               /\ record[wjob[w].render_id].status \in Terminal
               /\ record[wjob[w].render_id].status = "completed"
                    => cache[wjob[w].cache_key] # None
        /\ \A id \in RenderIds :
             notify'[id] > notify[id] =>
               \E w \in Workers : wpc[w] = "notify" /\ wjob[w].render_id = id
        /\ \A r \in Reqs :
             (WokenCompleted(r) /\ pc'[r] = "done") =>
               /\ resp'[r].body.status = "completed"
               /\ cache'[KeyOf(r)] # None]_vars

\* a sync caller has taken the token (no TTL has run out) and returned the
\* completed result, and the next sync submission, for the same input, is
\* at its cache lookup with the entry in the store
C35_Witness ==
  \E r, s \in Reqs :
    /\ r # s
    /\ mode[r] = "sync" /\ pc[r] = "done" /\ rid[r] # NoId
    /\ pushCount[rid[r]] = 1 /\ notify[rid[r]] = 0 /\ expired = 0
    /\ resp[r].kind = "render" /\ resp[r].body.status = "completed"
    /\ mode[s] = "sync" /\ pc[s] = "s_cache"
    /\ input[s] = input[r]
    /\ cache[KeyOf(s)] # None

\* ------------------------------------------------------------------------
\* C36: the admission counter counts the holders
\* ------------------------------------------------------------------------
\* the sync requests that acquired a slot and have not released it
Holders == {r \in Reqs : SyncHolding(r)}

\* C36: the admission counter equals the number of sync requests that have
\* acquired a slot and not yet released it (check_concurrency_limit and
\* release_concurrency_slot run under the lock, each as one step); the
\* counter goes down only when a holder leaves render_sync, by exactly one
\* and from a value of at least one, so max(0, n - 1) is n - 1.
C36_CounterCountsHolders ==
  /\ [](active = Cardinality(Holders))
  /\ [][active' < active =>
          /\ active >= 1
          /\ active' = active - 1
          /\ \E r \in Holders : pc'[r] = "done"
          /\ Cardinality({r \in Holders : pc'[r] = "done"}) = 1]_vars

\* one sync request has released its slot after a rendered response and
\* another one holds the slot
C36_Witness ==
  \E r, s \in Reqs :
    /\ mode[r] = "sync" /\ pc[r] = "done" /\ resp[r].kind = "render"
    /\ SyncHolding(s)
    /\ active = 1

\* ------------------------------------------------------------------------
\* C37: the pending write comes before the job is visible
\* ------------------------------------------------------------------------
\* nothing was ever written under render_id
NeverWritten(id) == lastWrite[id] = <<"none", "none">>

\* a job for render_id is in a worker's hands
InHands(id) == \E w \in Workers : wjob[w].render_id = id

\* C37: render_async stores the pending ResultRecord before it pushes the
\* job: at the pending write nothing was written under the render_id and no
\* job for it is in the queue or in a worker's hands, at the push the
\* record is the pending one, and no write of status pending ever replaces
\* a record (of status processing, completed or failed, or any other).
C37_PendingBeforeVisible ==
  [][/\ \A r \in Reqs :
          (pc[r] = "a_setpending" /\ pc'[r] # pc[r]) =>
            /\ NeverWritten(rid[r])
            /\ ~Enqueued(rid[r])
            /\ ~InHands(rid[r])
            /\ record'[rid[r]] = PendingRecord(rid[r])
     /\ \A r \in Reqs :
          (pc[r] = "a_enqueue" /\ pc'[r] # pc[r]) =>
            /\ record[rid[r]] = PendingRecord(rid[r])
            /\ lastWrite[rid[r]] = <<"front_door", "pending">>
            /\ Enqueued(rid[r])'
     /\ \A id \in RenderIds :
          (record'[id] # record[id] /\ record'[id].status = "pending") =>
            /\ record[id] = None
            /\ NeverWritten(id)]_vars

\* an async job whose pending record a worker has replaced by processing
\* and then by a terminal status
C37_Witness ==
  \E r \in Reqs :
    /\ mode[r] = "async" /\ pc[r] = "done" /\ MissedCache(r)
    /\ lastWrite[rid[r]][1] = "worker"
    /\ record[rid[r]].status \in Terminal

\* ------------------------------------------------------------------------
\* C38: the render queue is served first
\* ------------------------------------------------------------------------
\* a brpop takes a job from avatar:capture:jobs in this step
CapturePopped ==
  /\ Len(cqueue') = Len(cqueue) - 1
  /\ \E w \in Workers : wpc[w] = "pop" /\ wpc'[w] = "c_stage"

\* C38: a brpop over (avatar:jobs, avatar:capture:jobs) takes a capture job
\* only in a state where avatar:jobs is empty; in every step taken while
\* avatar:jobs holds a job the capture jobs that are queued stay queued, and
\* a worker that leaves its brpop then has taken the render job at the tail.
C38_RenderQueueFirst ==
  [][/\ CapturePopped => queue = <<>>
     /\ queue # <<>> =>
          /\ Len(cqueue') >= Len(cqueue)
          /\ SubSeq(cqueue', 1, Len(cqueue)) = cqueue
          /\ \A w \in Workers :
               (wpc[w] = "pop" /\ wpc'[w] # "pop") =>
                 /\ wpc'[w] = "guard"
                 /\ wjob'[w] = queue[Len(queue)]]_vars

\* a capture job is still queued while one worker has taken a render job
\* and the other, at its brpop, finds a job in each of the two queues
C38_Witness ==
  \E w, v \in Workers :
    /\ wpc[w] = "guard"
    /\ wpc[v] = "pop"
    /\ queue # <<>>
    /\ cqueue # <<>>

\* ------------------------------------------------------------------------
\* C39: shutdown
\* ------------------------------------------------------------------------
\* worker w ends its iteration and leaves the loop in this step
LeavesLoop(w) == wpc[w] # "stopped" /\ wpc'[w] = "stopped"

\* C39: the signal changes nothing but the flag; once the flag of a worker
\* is cleared the worker starts no further iteration (it never gets back
\* to its brpop), it leaves the loop at the end of the current iteration,
\* which is a brpop that timed out, a job skipped by the guard, or a job
\* whose record is stored and whose notify token is pushed in that step,
\* and out of the loop it takes no job; with the worker process running
\* the loop is left eventually.
C39_ShutdownTerminates ==
  /\ [][\A w \in Workers :
          /\ running'[w] # running[w] =>
               /\ ~running'[w]
               /\ UNCHANGED <<fdVars, active, clk, coarse, storeVars, expired,
                              workerVars, histVars, capVars, injected>>
          /\ ~running[w] =>
               /\ wpc[w] # "pop" => wpc'[w] # "pop"
               /\ wpc[w] = "stopped" =>
                    wpc'[w] = "stopped" /\ wjob'[w] = NoJob
               /\ wpc[w] \in {"upd_get", "upd_set", "pipeline", "cache"} =>
                    wpc'[w] # "stopped" /\ wjob'[w] = wjob[w]
               /\ LeavesLoop(w) =>
                    \/ wpc[w] = "pop" /\ queue' = queue
                    \/ wpc[w] = "guard" /\ wjob[w].render_id \in skipped'
                    \/ /\ wpc[w] = "notify"
                       /\ record[wjob[w].render_id].status \in Terminal
                       /\ notify'[wjob[w].render_id]
                            = notify[wjob[w].render_id] + 1]_vars
  /\ \A w \in Workers : ~running[w] ~> wpc[w] = "stopped"

\* one worker has left the loop; the other, its flag cleared, has stored
\* the result of the job in its hands and is about to push the token
C39_Witness ==
  \E w, v \in Workers :
    /\ ~running[w] /\ wpc[w] = "stopped"
    /\ ~running[v] /\ wpc[v] = "notify"
    /\ record[wjob[v].render_id].status \in Terminal

====
